---- MODULE Spec2Model ----
(***************************************************************************)
(* The frame -> narration control pipeline of VisionAssistant (src/app.py): *)
(* the sampling main loop, the single-worker analysis executor running     *)
(* process_frame, the done-callback that deduplicates and enqueues the     *)
(* narration, the bounded narration queue and the speech worker.           *)
(*                                                                         *)
(* Time is a discrete clock; every time.time() read is the clock's value.  *)
(* External collaborators (detector, narration generator, speech sink) are *)
(* nondeterministic choices over their possible outcomes.                  *)
(***************************************************************************)
EXTENDS Integers, Sequences, FiniteSets, TLC

(***************************************************************************)
(* Bounds of the model.                                                    *)
(***************************************************************************)
MaxFrames == 4
MaxTime == 2
\* the longest argument of a followed call of _is_similar
MaxLen == 3
MaxRetries == 2
StartTime == 5

(***************************************************************************)
(* Program constants.                                                      *)
(***************************************************************************)
MaxWorkers == 1
QueueMaxSize == 2
RatioPct == 88
JaccardPct == 80

\* an executor with one thread more
Workers_OneMore == 1..(MaxWorkers + 1)

Workers == 1..MaxWorkers

(***************************************************************************)
(* Optional values.  Python's None is a value distinct from every tuple    *)
(* and every string; a raised exception stored in a Future is distinct     *)
(* from every result.                                                      *)
(***************************************************************************)
NoneKey == <<"<None>">>
NoneText == <<"<None>">>
Exc == <<"<Exception>">>
Cancelled == <<"<Cancelled>">>
Sentinel == <<"<Sentinel>">>

\* Python truthiness of an Optional[str]: None and "" are false.
Truthy(t) == t # NoneText /\ t # <<>>

(***************************************************************************)
(* Strings are sequences of one-character strings.                         *)
(***************************************************************************)
LowerOf ==
    ("A" :> "a") @@ ("B" :> "b") @@ ("C" :> "c") @@ ("D" :> "d") @@
    ("E" :> "e") @@ ("N" :> "n") @@ ("P" :> "p") @@ ("R" :> "r")

AlnumLower == {"a", "b", "c", "d", "e", "f", "g", "h", "i", "j", "k", "l", "m",
               "n", "o", "p", "q", "r", "s", "t", "u", "v", "w", "x", "y", "z",
               "0", "1", "2", "3", "4", "5", "6", "7", "8", "9"}

Whitespace == {" ", "\t", "\n"}

\* str.lower()
Lower(s) == [i \in 1..Len(s) |-> IF s[i] \in DOMAIN LowerOf THEN LowerOf[s[i]] ELSE s[i]]

RECURSIVE LStrip(_)
LStrip(s) == IF s # <<>> /\ Head(s) \in Whitespace THEN LStrip(Tail(s)) ELSE s

RECURSIVE RStrip(_)
RStrip(s) ==
    IF s # <<>> /\ s[Len(s)] \in Whitespace THEN RStrip(SubSeq(s, 1, Len(s) - 1)) ELSE s

\* str.strip()
Strip(s) == RStrip(LStrip(s))

\* re.sub(r"[^a-z0-9\s]", " ", text): each other character becomes one space
Depunct(s) ==
    [i \in 1..Len(s) |-> IF s[i] \in AlnumLower \cup Whitespace THEN s[i] ELSE " "]

\* re.sub(r"\s+", " ", text): each run of whitespace becomes one space
RECURSIVE Collapse(_)
Collapse(s) ==
    IF s = <<>> THEN <<>>
    ELSE IF Head(s) \in Whitespace
         THEN <<" ">> \o Collapse(LStrip(s))
         ELSE <<Head(s)>> \o Collapse(Tail(s))

\* _normalize (the two copies in src/app.py are the same text)
Normalize(text) == Strip(Collapse(Depunct(Strip(Lower(text)))))

\* difflib.SequenceMatcher: length of the common run starting at a[i], b[j]
RECURSIVE RunLen(_, _, _, _, _, _)
RunLen(a, b, i, j, ahi, bhi) ==
    IF i <= ahi /\ j <= bhi /\ a[i] = b[j]
    THEN 1 + RunLen(a, b, i + 1, j + 1, ahi, bhi)
    ELSE 0

\* find_longest_match: the longest block, of those the earliest in a, then in b
LongestMatch(a, b, alo, ahi, blo, bhi) ==
    LET C == (alo..ahi) \X (blo..bhi)
        K(p) == RunLen(a, b, p[1], p[2], ahi, bhi)
        Best(p) == \A q \in C :
                      \/ K(q) < K(p)
                      \/ K(q) = K(p) /\ (p[1] < q[1] \/ (p[1] = q[1] /\ p[2] <= q[2]))
    IN  IF C = {} THEN <<alo, blo, 0>>
        ELSE LET p == CHOOSE p \in C : Best(p) IN <<p[1], p[2], K(p)>>

\* get_matching_blocks: total size of the blocks found left and right of the longest
RECURSIVE MatchTotal(_, _, _, _, _, _)
MatchTotal(a, b, alo, ahi, blo, bhi) ==
    IF alo > ahi \/ blo > bhi THEN 0
    ELSE LET m == LongestMatch(a, b, alo, ahi, blo, bhi)
         IN  IF m[3] = 0 THEN 0
             ELSE m[3] + MatchTotal(a, b, alo, m[1] - 1, blo, m[2] - 1)
                       + MatchTotal(a, b, m[1] + m[3], ahi, m[2] + m[3], bhi)

\* SequenceMatcher(None, na, nb).ratio() >= 0.88, in integers: 2*M/T >= 88/100
RatioAtLeast(na, nb, pct) ==
    LET T == Len(na) + Len(nb)
    IN  IF T = 0 THEN TRUE
        ELSE 200 * MatchTotal(na, nb, 1, Len(na), 1, Len(nb)) >= pct * T

\* set(s.split()) of a normalized string
RECURSIVE Tokens(_, _)
Tokens(s, cur) ==
    IF s = <<>> THEN (IF cur = <<>> THEN {} ELSE {cur})
    ELSE IF Head(s) \in Whitespace
         THEN (IF cur = <<>> THEN {} ELSE {cur}) \cup Tokens(Tail(s), <<>>)
         ELSE Tokens(Tail(s), Append(cur, Head(s)))

Max(x, y) == IF x >= y THEN x ELSE y

\* _is_similar (the two copies in src/app.py are the same text)
IsSimilarText(a, b) ==
    LET na == Normalize(a)
        nb == Normalize(b)
        sa == Tokens(na, <<>>)
        sb == Tokens(nb, <<>>)
    IN  IF na = <<>> \/ nb = <<>> THEN FALSE
        ELSE IF na = nb THEN TRUE
        ELSE IF RatioAtLeast(na, nb, RatioPct) THEN TRUE
        ELSE /\ sa # {} /\ sb # {}
             /\ 100 * Cardinality(sa \cap sb) >= JaccardPct * Max(1, Cardinality(sa \cup sb))

(***************************************************************************)
(* Narration texts the generator may return.                               *)
(***************************************************************************)
TextCar == <<"C", "a", "r", " ", "n", "e", "a", "r">>
TextCarAgain == <<"c", "a", "r", " ", "n", "e", "a", "r", "!">>
TextPerson == <<"P", "e", "r", "s", "o", "n">>

Texts == {TextCar, TextCarAgain, TextPerson}

\* _is_similar on the texts of the model, computed once
SimilarPairs == UNION {IF IsSimilarText(p[1], p[2]) THEN {p} ELSE {} : p \in Texts \X Texts}

Similar(a, b) ==
    IF a \in Texts /\ b \in Texts THEN <<a, b>> \in SimilarPairs ELSE IsSimilarText(a, b)

(***************************************************************************)
(* Detections.  A detection is a label with its distance bucket reduced to *)
(* the one flag the pipeline reads: distance == "very_close".              *)
(***************************************************************************)
Labels == {"car", "person"}

\* alphabetical order of the labels, which sorted() uses
Rank == ("car" :> 1) @@ ("person" :> 2)

Det(l, close) == [label |-> l, vc |-> close]

\* tuple(sorted(stable_labels))
RECURSIVE SortedTuple(_)
SortedTuple(S) ==
    IF S = {} THEN <<>>
    ELSE LET m == CHOOSE x \in S : \A y \in S : Rank[x] <= Rank[y]
         IN  <<m>> \o SortedTuple(S \ {m})

VARIABLES
    cfg,                          \* the environment configuration read at start-up
    env,                          \* what the collaborators may produce
    clock,                        \* time.time()
    mpc,                          \* main thread: position in main()
    frame_idx,                    \* main: frame counter
    pending,                      \* main: the Future held (0 is None)
    fut,                          \* the Futures, by the index of the frame submitted
    wk,                           \* executor worker threads: position and locals
    recent_label_sets,            \* the stabilization window (a deque)
    last_detection_key,
    last_detection_key_lock,      \* the thread that holds the lock (Free: none)
    last_ai_ts,
    last_enqueue_ts,
    last_enqueued_text,
    last_enqueued_detection_key,
    tts_queue,                    \* queue.Queue(maxsize=2)
    stop_event,
    tpc,                          \* speech worker: position in _tts_worker
    ttext,                        \* speech worker: the text being spoken
    tnow,                         \* speech worker: the time read before speaking
    last_spoken_text,
    last_spoken_ts,
    \* history, read by the properties only
    hist,                         \* the analysis cycles so far, in order (if env.trace)
    compl,                        \* what the most recent completion did (if env.note)
    spoke_at,                     \* the time of the most recent call of speak (-1: none)
    trk,                          \* the narration enqueued last, followed to the sink (if env.note)
    log,                          \* the texts put on the queue and those passed to speak (if env.order)
    cmp,                          \* a call of _is_similar: its arguments and its result
    ds,                           \* a call of describe_scene: its retry loop
    de,                           \* decision_engine: last_message and the calls made
    ani                           \* an ANIEngine: its tracks, next_id and the calls made

progVars == <<cfg, env, clock, mpc, frame_idx, pending, fut, wk, recent_label_sets,
              last_detection_key, last_detection_key_lock, last_ai_ts, last_enqueue_ts, last_enqueued_text,
              last_enqueued_detection_key, tts_queue, stop_event, tpc, ttext, tnow,
              last_spoken_text, last_spoken_ts>>
histVars == <<hist, compl, spoke_at, trk, log>>
vars == <<progVars, histVars, cmp, ds, de, ani>>

mainVars == <<mpc, frame_idx, pending>>
procVars == <<recent_label_sets, last_detection_key, last_ai_ts>>
enqVars == <<last_enqueue_ts, last_enqueued_text, last_enqueued_detection_key>>
ttsVars == <<tpc, ttext, tnow, last_spoken_text, last_spoken_ts>>

(***************************************************************************)
(* Configuration: PROCESS_EVERY_N_FRAMES, DETECTION_SMOOTHING_WINDOW,      *)
(* DETECTION_SMOOTHING_MIN_HITS, NARRATION_COOLDOWN_S,                     *)
(* FORCE_NARRATION_EVERY_S.                                                *)
(***************************************************************************)
Config(n, w, m, c, f) == [N |-> n, W |-> w, M |-> m, cooldown |-> c, force |-> f]

\* deque(maxlen=max(1, smoothing_window))
WindowCap == Max(1, cfg.W)

\* threading.Lock(): its holder
Free == <<"free">>
MainThread == <<"main">>
WorkerThread(w) == <<"worker", w>>

\* a Future: its state, its result, whether _on_done is registered, and the number
\* of completion handlers that have read its result
NoFuture == [st |-> "none", res |-> NoneText, cb |-> FALSE, seen |-> 0]
IdleWorker == [pc |-> "idle", task |-> 0, dets |-> {}, key |-> NoneKey,
               text |-> NoneText, now |-> 0]
\* a cycle of process_frame: the frame's detections, what the cycle did ("error": the
\* detector raised; "nodet": no detections; "skip": scene unchanged; "dispatch":
\* describe_scene called), the key and the override it computed, the generator's
\* outcome ("guard": describe_scene returned before calling the generator, "text",
\* "empty"), and last_detection_key as the cycle found it
Cycle(dets, kind, key, urgent, before) ==
    [dets |-> dets, kind |-> kind, key |-> key, urgent |-> urgent,
     out |-> "none", before |-> before]

\* hist with the cycle c added; with env.keep > 0 only the latest env.keep cycles
\* are kept
Record(c) ==
    IF ~env.trace THEN hist
    ELSE IF env.keep > 0 /\ Len(hist) >= env.keep
    THEN Append(SubSeq(hist, Len(hist) - env.keep + 2, Len(hist)), c)
    ELSE Append(hist, c)

\* the outcome of a completion: "error", "empty", "cooldown", "duplicate", "full",
\* "accept", or "raised" when an exception left the completion
Note(v) == IF env.note THEN v ELSE compl

\* the narration enqueued last: its place in the queue (0 once taken), whether the
\* same text came again for the same key inside the cooldown window, whether the
\* speech worker has taken it, the calls of speak made for it, and what the worker
\* did with it ("spoken", or dropped by "cooldown" or as "similar"), and
\* last_enqueue_ts as the enqueue gate compared it when it admitted the text
NoTrack ==
    [live |-> FALSE, pos |-> 0, dup |-> FALSE, handled |-> FALSE, spoken |-> 0,
     why |-> "none", prev |-> 0]

\* the generator's text is the text enqueued last, for the same key, and the
\* completion falls inside the cooldown window of that enqueue
RepeatInWindow(res, now) ==
    /\ res = last_enqueued_text
    /\ last_detection_key = last_enqueued_detection_key
    /\ cfg.cooldown > 0
    /\ now - last_enqueue_ts < cfg.cooldown

\* trk after a completion with verdict v
Track(v, res, now) ==
    IF ~env.note THEN trk
    ELSE IF v = "accept"
    THEN [NoTrack EXCEPT !.live = TRUE, !.pos = Len(tts_queue) + 1,
                         !.prev = last_enqueue_ts]
    ELSE IF trk.live /\ RepeatInWindow(res, now) THEN [trk EXCEPT !.dup = TRUE]
    ELSE trk

\* trk after the speech worker has taken an item, calling speak for it or not
TrackTaken(speaks, why) ==
    IF ~env.note \/ ~trk.live \/ trk.pos = 0 THEN trk
    ELSE IF trk.pos = 1
    THEN [trk EXCEPT !.pos = 0, !.handled = TRUE, !.spoken = IF speaks THEN 1 ELSE 0,
                     !.why = why]
    ELSE [trk EXCEPT !.pos = @ - 1]

\* the texts put on the queue and the texts passed to speak, each in order, and
\* the number of texts passed to speak when stop_event was set (-1 before)
NoLog == [pushed |-> <<>>, spoken |-> <<>>, stopped |-> -1]

LogPush(text) == IF env.order THEN [log EXCEPT !.pushed = Append(@, text)] ELSE log

LogSpeak(text) == IF env.order THEN [log EXCEPT !.spoken = Append(@, text)] ELSE log

LogStop == IF env.order THEN [log EXCEPT !.stopped = Len(log.spoken)] ELSE log

\* no retry loop of describe_scene is followed
NoCall ==
    [pc |-> "none", retries |-> 0, attempt |-> 0, calls |-> 0, sleeps |-> <<>>,
     outcomes |-> <<>>, result |-> NoneText]

\* decision_engine as imported: last_message = None, no call made
NoDecision == [last_message |-> NoneText, calls |-> <<>>]

\* an ANIEngine as constructed, before any call of process_frame: no track,
\* next_id = 0; with it the number of calls made, the argument and the
\* matched_tracks of the latest call and the ids deleted so far
NoEngine ==
    [tracked_objects |-> <<>>, next_id |-> 0, max_missed_frames |-> 0,
     calls |-> 0, detections |-> <<>>, matched_tracks |-> {}, removed |-> {}]

\* no call of _is_similar is followed
NoCompare == [a |-> <<>>, b |-> <<>>, pc |-> "none", out |-> FALSE]

InitWith(c, e) ==
    /\ cfg = c
    /\ env = e
    /\ clock = StartTime
    /\ mpc = "loop"
    /\ frame_idx = 0
    /\ pending = 0
    /\ fut = [i \in 1..e.frames |-> NoFuture]
    /\ wk = [w \in Workers |-> IdleWorker]
    /\ recent_label_sets = <<>>
    /\ last_detection_key = NoneKey
    /\ last_detection_key_lock = Free
    /\ last_ai_ts = 0
    /\ last_enqueue_ts = 0
    /\ last_enqueued_text = NoneText
    /\ last_enqueued_detection_key = NoneKey
    /\ tts_queue = <<>>
    /\ stop_event = FALSE
    /\ tpc = "loop"
    /\ ttext = NoneText
    /\ tnow = 0
    /\ last_spoken_text = NoneText
    /\ last_spoken_ts = 0
    /\ hist = <<>>
    /\ compl = "none"
    /\ spoke_at = -1
    /\ trk = NoTrack
    /\ log = NoLog
    /\ cmp = NoCompare
    /\ ds = NoCall
    /\ de = NoDecision
    /\ ani = NoEngine

(***************************************************************************)
(* Futures and the executor.                                               *)
(***************************************************************************)
\* Future.done()
Done(id) == fut[id].st \in {"finished", "cancelled"}

\* fut.result() has been read by the one reader the future has (the callback, or
\* the immediate path): nothing reads the result again, and the model drops it
Consumed(id) == [fut EXCEPT ![id].res = NoneText, ![id].seen = @ + 1]

\* the busy check left out: every sampled frame is submitted
SlotBusy_Never == FALSE

\* the busy check inverted: a frame is submitted only while an analysis is in flight
SlotBusy_Inverted == pending # 0 /\ Done(pending)

\* main(): "pending is not None and not pending.done()"
SlotBusy == pending # 0 /\ ~Done(pending)

\* the stride ignored: every frame is a candidate
Sampled_All(idx) == TRUE

\* main(): "frame_idx % process_every_n_frames != 0" drops the frame
Sampled(idx) == idx % cfg.N = 0

\* the full() check left out
QueueFull_Never == FALSE

\* queue.Queue.full()
QueueFull == Len(tts_queue) >= QueueMaxSize

\* the number of process_frame executions in progress
ActiveAnalyses ==
    Cardinality({w \in Workers : wk[w].pc \in {"detect", "skip", "pass", "describe", "record"}})

(***************************************************************************)
(* process_frame: the stabilizer and the scene-change gate.                *)
(***************************************************************************)
\* a deque without maxlen: nothing is evicted
PushWindow_Unbounded(win, s) == Append(win, s)

\* deque.append with maxlen: the oldest set leaves when the deque is full
PushWindow(win, s) ==
    IF Len(win) >= WindowCap THEN Append(Tail(win), s) ELSE Append(win, s)

\* the threshold compared with > in place of >=
StableLabels_Strict(win) ==
    {l \in Labels : Cardinality({i \in 1..Len(win) : l \in win[i]}) > cfg.M}

\* Counter over the window; the labels with count >= smoothing_min_hits
StableLabels(win) ==
    {l \in Labels :
        /\ \E i \in 1..Len(win) : l \in win[i]
        /\ Cardinality({i \in 1..Len(win) : l \in win[i]}) >= cfg.M}

\* the key recorded whatever describe_scene returned
Narrated_Always(text) == TRUE

\* process_frame: "if not text: return None" stands before the assignments of
\* last_detection_key and last_ai_ts
Narrated(text) == Truthy(text)

\* has_urgent_hazard
HasUrgentHazard(sdets) == \E d \in sdets : d.vc

\* the urgent override left out of the gate
SceneUnchanged_IgnoreUrgent(key, urgent) ==
    /\ last_detection_key = key
    /\ ~(cfg.force > 0 /\ clock - last_ai_ts >= cfg.force)

\* the gate left out: every cycle with detections calls describe_scene
SceneUnchanged_Never(key, urgent) == FALSE

\* the force interval left out: an unchanged scene is always skipped
SceneUnchanged_NoForce(key, urgent) ==
    /\ last_detection_key = key
    /\ ~urgent

\* "Scene unchanged, skipping AI": the branch that returns None
SceneUnchanged(key, urgent) ==
    /\ last_detection_key = key
    /\ ~urgent
    /\ ~(cfg.force > 0 /\ clock - last_ai_ts >= cfg.force)

(***************************************************************************)
(* The dedup gate, as written on each of the two completion paths.         *)
(***************************************************************************)
\* the enqueue cooldown never rejects
CooldownActive_Off(now) == FALSE

\* the bound included, and no test of cooldown_s > 0
CooldownActive_Inclusive(now) == now - last_enqueue_ts <= cfg.cooldown

\* "if cooldown_s > 0 and (now - last_enqueue_ts) < cooldown_s", on both paths
CooldownActive(now) == cfg.cooldown > 0 /\ now - last_enqueue_ts < cfg.cooldown

\* the key left out of the comparison: any text similar to the last is a duplicate
NearDuplicate_AnyKey(text) ==
    /\ Truthy(last_enqueued_text)
    /\ Similar(text, last_enqueued_text)

\* "if (last_enqueued_text and current_key is not None and
\* last_enqueued_detection_key == current_key and _is_similar(text,
\* last_enqueued_text))", on both paths, current_key being last_detection_key
NearDuplicate(text) ==
    /\ Truthy(last_enqueued_text)
    /\ last_detection_key # NoneKey
    /\ last_enqueued_detection_key = last_detection_key
    /\ Similar(text, last_enqueued_text)

\* a completion reaches "with last_detection_key_lock: current_key = ..."
ReadsKey(res, now) == res \notin {NoneText, <<>>, Exc, Cancelled} /\ ~CooldownActive(now)

\* main(): the immediate-completion path
SyncVerdict(text, now) ==
    IF ~Truthy(text) THEN "empty"
    ELSE IF CooldownActive(now) THEN "cooldown"
    ELSE IF NearDuplicate(text) THEN "duplicate"
    ELSE IF ~QueueFull THEN "accept"
    ELSE "full"

\* _on_done without "if not text: return"
CallbackVerdict_NoEmptyTest(res, now) ==
    IF res = Exc \/ res = Cancelled THEN "error"
    ELSE IF CooldownActive(now) THEN "cooldown"
    ELSE IF NearDuplicate(res) THEN "duplicate"
    ELSE IF QueueFull THEN "full"
    ELSE "accept"

\* a narration of a cycle with an urgent hazard passes the cooldown and the
\* near-duplicate test
CallbackVerdict_UrgentBypass(res, now) ==
    IF res = Exc \/ res = Cancelled THEN "error"
    ELSE IF ~Truthy(res) THEN "empty"
    ELSE IF env.trace /\ hist # <<>> /\ hist[Len(hist)].urgent
    THEN IF QueueFull THEN "full" ELSE "accept"
    ELSE IF CooldownActive(now) THEN "cooldown"
    ELSE IF NearDuplicate(res) THEN "duplicate"
    ELSE IF QueueFull THEN "full"
    ELSE "accept"

\* _on_done: the callback path
CallbackVerdict(res, now) ==
    IF res = Exc \/ res = Cancelled THEN "error"
    ELSE IF ~Truthy(res) THEN "empty"
    ELSE IF CooldownActive(now) THEN "cooldown"
    ELSE IF NearDuplicate(res) THEN "duplicate"
    ELSE IF QueueFull THEN "full"
    ELSE "accept"

\* the text is put on the queue and the timestamp set, text and key left as they were
Enqueue_TimestampOnly(text, now, key) ==
    /\ tts_queue' = Append(tts_queue, text)
    /\ last_enqueue_ts' = now
    /\ log' = LogPush(text)
    /\ UNCHANGED <<last_enqueued_text, last_enqueued_detection_key>>

\* the text is put at the head of the queue
Enqueue_Front(text, now, key) ==
    /\ tts_queue' = <<text>> \o tts_queue
    /\ last_enqueue_ts' = now
    /\ last_enqueued_text' = text
    /\ last_enqueued_detection_key' = key
    /\ log' = LogPush(text)

\* put_nowait and the three assignments that follow it
Enqueue(text, now, key) ==
    /\ tts_queue' = Append(tts_queue, text)
    /\ last_enqueue_ts' = now
    /\ last_enqueued_text' = text
    /\ last_enqueued_detection_key' = key
    /\ log' = LogPush(text)

(***************************************************************************)
(* The main loop.                                                          *)
(***************************************************************************)
\* one iteration of "for frame in get_frames(...)" up to executor.submit
MainFrame ==
    /\ mpc = "loop"
    /\ frame_idx < env.frames
    /\ LET idx == frame_idx + 1
       IN  /\ frame_idx' = idx
           /\ IF ~Sampled(idx) \/ SlotBusy
              THEN UNCHANGED <<mpc, pending, fut>>
              ELSE /\ pending' = idx
                   /\ fut' = [fut EXCEPT ![idx] = [NoFuture EXCEPT !.st = "pending"]]
                   /\ mpc' = "check"
    /\ UNCHANGED <<cfg, env, cmp, ds, de, ani, last_detection_key_lock, clock, wk, procVars, enqVars, tts_queue, stop_event,
                   ttsVars, histVars>>

\* "if pending.done():" and the immediate-completion path under it
MainCheck ==
    /\ mpc = "check"
    /\ (Done(pending) /\ ReadsKey(fut[pending].res, clock)) => last_detection_key_lock = Free
    /\ IF ~Done(pending)
       THEN /\ mpc' = "attach"
            /\ UNCHANGED <<enqVars, tts_queue, fut, compl, trk, log>>
       ELSE IF fut[pending].res = Exc
       THEN \* pending.result() re-raises; only KeyboardInterrupt is caught
            /\ mpc' = "finally"
            /\ fut' = Consumed(pending)
            /\ compl' = Note("raised")
            /\ UNCHANGED <<enqVars, tts_queue, trk, log>>
       ELSE LET text == fut[pending].res
                v == SyncVerdict(text, clock)
            IN  /\ mpc' = "loop"
                /\ fut' = Consumed(pending)
                /\ compl' = Note(v)
                /\ trk' = Track(v, text, clock)
                /\ IF v = "accept"
                   THEN Enqueue(text, clock, last_detection_key)
                   ELSE UNCHANGED <<enqVars, tts_queue, log>>
    /\ UNCHANGED <<cfg, env, cmp, ds, de, ani, last_detection_key_lock, clock, frame_idx, pending, wk, procVars, stop_event,
                   ttsVars, hist, spoke_at>>

\* pending.add_done_callback(_on_done): registers the callback, or runs it at once
\* in the main thread when the future has completed in the meantime
MainAttach ==
    /\ mpc = "attach"
    /\ (Done(pending) /\ ReadsKey(fut[pending].res, clock)) => last_detection_key_lock = Free
    /\ mpc' = "loop"
    /\ IF ~Done(pending)
       THEN /\ fut' = [fut EXCEPT ![pending].cb = TRUE]
            /\ UNCHANGED <<enqVars, tts_queue, compl, trk, log>>
       ELSE LET res == fut[pending].res
                v == CallbackVerdict(res, clock)
            IN  /\ compl' = Note(v)
                /\ trk' = Track(v, res, clock)
                /\ IF v = "accept"
                   THEN Enqueue(res, clock, last_detection_key)
                   ELSE UNCHANGED <<enqVars, tts_queue, log>>
                /\ fut' = Consumed(pending)
    /\ UNCHANGED <<cfg, env, cmp, ds, de, ani, last_detection_key_lock, clock, frame_idx, pending, wk, procVars, stop_event,
                   ttsVars, hist, spoke_at>>

\* KeyboardInterrupt in the loop: control passes to the finally clause
Interrupt ==
    /\ mpc \in {"loop", "check", "attach"}
    /\ mpc' = "finally"
    /\ UNCHANGED <<cfg, env, cmp, ds, de, ani, last_detection_key_lock, clock, frame_idx, pending, fut, wk, procVars, enqVars,
                   tts_queue, stop_event, ttsVars, histVars>>

\* the finally clause: stop_event.set(), the sentinel pushed if there is room,
\* executor.shutdown(wait=False, cancel_futures=True)
Finally ==
    /\ mpc = "finally"
    /\ mpc' = "exited"
    /\ stop_event' = TRUE
    /\ tts_queue' = IF QueueFull THEN tts_queue ELSE Append(tts_queue, Sentinel)
    /\ fut' = [i \in DOMAIN fut |->
                  IF fut[i].st = "pending"
                  THEN [fut[i] EXCEPT !.st = "cancelled", !.res = Cancelled]
                  ELSE fut[i]]
    /\ log' = LogStop
    /\ UNCHANGED <<cfg, env, cmp, ds, de, ani, last_detection_key_lock, clock, frame_idx, pending, wk, procVars, enqVars,
                   ttsVars, hist, compl, spoke_at, trk>>

(***************************************************************************)
(* The executor's worker thread: process_frame, then the done-callbacks.   *)
(***************************************************************************)
\* Future.set_result / set_exception: the future completes, and the worker goes on
\* to run the callback if one was registered before the completion
Finish(w, res) ==
    LET id == wk[w].task
    IN  /\ fut' = [fut EXCEPT ![id].st = "finished", ![id].res = res]
        /\ wk' = [wk EXCEPT ![w] = IF fut[id].cb
                                   THEN [IdleWorker EXCEPT !.pc = "cb", !.task = id]
                                   ELSE IdleWorker]

\* the worker takes the oldest queued work item
WorkerTake(w) ==
    /\ wk[w].pc = "idle"
    /\ \E id \in DOMAIN fut :
          /\ fut[id].st = "pending"
          /\ \A j \in DOMAIN fut : fut[j].st = "pending" => id <= j
          /\ fut' = [fut EXCEPT ![id].st = "running"]
          /\ wk' = [wk EXCEPT ![w] = [IdleWorker EXCEPT !.pc = "detect", !.task = id]]
    /\ UNCHANGED <<cfg, env, cmp, ds, de, ani, last_detection_key_lock, clock, mainVars, procVars, enqVars, tts_queue, stop_event,
                   ttsVars, histVars>>

\* describe_scene without its first test: the generator is called for an empty list
DescribeScene_NoGuard(dets) ==
    {[text |-> t, called |-> TRUE] : t \in env.texts \cup {NoneText}}

\* describe_scene: "if not detections: return None" before anything else; otherwise
\* the generator is called and the result is its text, or None (an empty answer,
\* or a failure after the retries)
DescribeScene(dets) ==
    IF dets = {}
    THEN {[text |-> NoneText, called |-> FALSE]}
    ELSE {[text |-> t, called |-> TRUE] : t \in env.texts \cup {NoneText}}

\* a frame without detections makes the cycle forget the recorded key
Detect_ForgetsKey(w) ==
    /\ wk[w].pc = "detect"
    /\ \/ \* detector.detect raises: process_frame ends with the exception
          /\ Finish(w, Exc)
          /\ hist' = Record(Cycle({}, "error", NoneKey, FALSE, last_detection_key))
          /\ UNCHANGED <<recent_label_sets, last_detection_key_lock, last_detection_key>>
       \/ \E dets \in env.scenes :
             IF dets = {}
             THEN /\ recent_label_sets' = PushWindow(recent_label_sets, {})
                  /\ hist' = Record(Cycle({}, "nodet", NoneKey, FALSE, last_detection_key))
                  /\ Finish(w, NoneText)
                  /\ last_detection_key' = NoneKey
                  /\ UNCHANGED last_detection_key_lock
             ELSE LET labels_now == {d.label : d \in dets}
                      win == PushWindow(recent_label_sets, labels_now)
                      stable_labels == StableLabels(win)
                      stable_detections == {d \in dets : d.label \in stable_labels}
                      has_urgent_hazard == HasUrgentHazard(stable_detections)
                      detection_key == SortedTuple(stable_labels)
                      unchanged == SceneUnchanged(detection_key, has_urgent_hazard)
                  IN  /\ last_detection_key_lock = Free
                      /\ last_detection_key_lock' = WorkerThread(w)
                      /\ recent_label_sets' = win
                      /\ wk' = [wk EXCEPT ![w].pc = IF unchanged THEN "skip" ELSE "pass",
                                          ![w].dets = stable_detections,
                                          ![w].key = detection_key]
                      /\ hist' = Record(Cycle(dets, IF unchanged THEN "skip" ELSE "dispatch",
                                              detection_key, has_urgent_hazard,
                                              last_detection_key))
                      /\ UNCHANGED <<fut, last_detection_key>>
    /\ UNCHANGED <<cfg, env, cmp, ds, de, ani, clock, mainVars, last_ai_ts, enqVars,
                   tts_queue, stop_event, ttsVars, compl, spoke_at, trk, log>>

\* process_frame from its start into "with last_detection_key_lock:": the detector
\* runs, the window is updated, the stable labels and the key are computed, the
\* lock is taken and the scene-change condition is evaluated under it
Detect(w) ==
    /\ wk[w].pc = "detect"
    /\ \/ \* detector.detect raises: process_frame ends with the exception
          /\ Finish(w, Exc)
          /\ hist' = Record(Cycle({}, "error", NoneKey, FALSE, last_detection_key))
          /\ UNCHANGED <<recent_label_sets, last_detection_key_lock>>
       \/ \E dets \in env.scenes :
             IF dets = {}
             THEN /\ recent_label_sets' = PushWindow(recent_label_sets, {})
                  /\ hist' = Record(Cycle({}, "nodet", NoneKey, FALSE, last_detection_key))
                  /\ Finish(w, NoneText)
                  /\ UNCHANGED last_detection_key_lock
             ELSE LET labels_now == {d.label : d \in dets}
                      win == PushWindow(recent_label_sets, labels_now)
                      stable_labels == StableLabels(win)
                      stable_detections == {d \in dets : d.label \in stable_labels}
                      has_urgent_hazard == HasUrgentHazard(stable_detections)
                      detection_key == SortedTuple(stable_labels)
                      unchanged == SceneUnchanged(detection_key, has_urgent_hazard)
                  IN  /\ last_detection_key_lock = Free
                      /\ last_detection_key_lock' = WorkerThread(w)
                      /\ recent_label_sets' = win
                      /\ wk' = [wk EXCEPT ![w].pc = IF unchanged THEN "skip" ELSE "pass",
                                          ![w].dets = stable_detections,
                                          ![w].key = detection_key]
                      /\ hist' = Record(Cycle(dets, IF unchanged THEN "skip" ELSE "dispatch",
                                              detection_key, has_urgent_hazard,
                                              last_detection_key))
                      /\ UNCHANGED fut
    /\ UNCHANGED <<cfg, env, cmp, ds, de, ani, clock, mainVars, last_detection_key, last_ai_ts, enqVars,
                   tts_queue, stop_event, ttsVars, compl, spoke_at, trk, log>>

\* describe_scene called inside the with block: the lock is kept on the way to it
LeaveGate_KeepsLock(w) ==
    /\ wk[w].pc \in {"skip", "pass"}
    /\ last_detection_key_lock' = IF wk[w].pc = "skip" THEN Free ELSE last_detection_key_lock
    /\ IF wk[w].pc = "skip"
       THEN Finish(w, NoneText)
       ELSE /\ wk' = [wk EXCEPT ![w].pc = "describe"]
            /\ UNCHANGED fut
    /\ UNCHANGED <<cfg, env, cmp, ds, de, ani, clock, mainVars, procVars, enqVars, tts_queue,
                   stop_event, ttsVars, histVars>>

\* process_frame leaves "with last_detection_key_lock:": by "return None" when the
\* scene is unchanged, or towards describe_scene
LeaveGate(w) ==
    /\ wk[w].pc \in {"skip", "pass"}
    /\ last_detection_key_lock' = Free
    /\ IF wk[w].pc = "skip"
       THEN Finish(w, NoneText)
       ELSE /\ wk' = [wk EXCEPT ![w].pc = "describe"]
            /\ UNCHANGED fut
    /\ UNCHANGED <<cfg, env, cmp, ds, de, ani, clock, mainVars, procVars, enqVars, tts_queue,
                   stop_event, ttsVars, histVars>>

\* "text = describe_scene(stable_detections)", then "if not text: return None", or
\* the lock is taken to record the key
Describe(w) ==
    /\ wk[w].pc = "describe"
    /\ \E r \in DescribeScene(wk[w].dets) :
       LET text == r.text
       IN /\ IF Narrated(text)
             THEN /\ last_detection_key_lock = Free
                  /\ last_detection_key_lock' = WorkerThread(w)
                  /\ wk' = [wk EXCEPT ![w].pc = "record", ![w].text = text]
                  /\ UNCHANGED fut
             ELSE /\ Finish(w, text)
                  /\ UNCHANGED last_detection_key_lock
          /\ hist' = IF env.trace
                     THEN [hist EXCEPT ![Len(hist)].out =
                              IF ~r.called THEN "guard"
                              ELSE IF Truthy(text) THEN "text" ELSE "empty"]
                     ELSE hist
    /\ UNCHANGED <<cfg, env, cmp, ds, de, ani, clock, mainVars, procVars, enqVars, tts_queue,
                   stop_event, ttsVars, compl, spoke_at, trk, log>>

\* "last_detection_key = detection_key" under the lock, then "last_ai_ts =
\* time.time()" and "return text"
RecordKey(w) ==
    /\ wk[w].pc = "record"
    /\ last_detection_key' = wk[w].key
    /\ last_detection_key_lock' = Free
    /\ last_ai_ts' = clock
    /\ Finish(w, wk[w].text)
    /\ UNCHANGED <<cfg, env, cmp, ds, de, ani, clock, mainVars, recent_label_sets, enqVars, tts_queue,
                   stop_event, ttsVars, histVars>>

\* _on_done in the worker thread, up to and including "if tts_queue.full(): return"
CallbackCheck(w) ==
    /\ wk[w].pc = "cb"
    /\ ReadsKey(fut[wk[w].task].res, clock) => last_detection_key_lock = Free
    /\ LET res == fut[wk[w].task].res
           v == CallbackVerdict(res, clock)
       IN  /\ wk' = [wk EXCEPT ![w] =
                        IF v = "accept"
                        THEN [@ EXCEPT !.pc = "put", !.text = res, !.now = clock,
                                       !.key = last_detection_key]
                        ELSE IdleWorker]
           /\ compl' = IF v = "accept" THEN compl ELSE Note(v)
           /\ trk' = IF v = "accept" THEN trk ELSE Track(v, res, clock)
    /\ fut' = Consumed(wk[w].task)
    /\ UNCHANGED <<cfg, env, cmp, ds, de, ani, last_detection_key_lock, clock, mainVars, procVars, enqVars, tts_queue,
                   stop_event, ttsVars, hist, spoke_at, log>>

\* _on_done in the worker thread: put_nowait and the assignments after it; a
\* queue.Full raised by put_nowait ends the callback (the executor logs it)
CallbackPut(w) ==
    /\ wk[w].pc = "put"
    /\ IF Len(tts_queue) >= QueueMaxSize
       THEN /\ compl' = Note("raised")
            /\ UNCHANGED <<enqVars, tts_queue, trk, log>>
       ELSE /\ compl' = Note("accept")
            /\ trk' = Track("accept", wk[w].text, wk[w].now)
            /\ Enqueue(wk[w].text, wk[w].now, wk[w].key)
    /\ wk' = [wk EXCEPT ![w] = IdleWorker]
    /\ UNCHANGED <<cfg, env, cmp, ds, de, ani, last_detection_key_lock, clock, mainVars, fut, procVars, stop_event, ttsVars,
                   hist, spoke_at>>

(***************************************************************************)
(* The speech worker.                                                      *)
(***************************************************************************)
\* speak called without waiting for it: the worker takes the next item meanwhile
AtGet_Async == tpc \in {"get", "speaking"}

\* the worker is at tts_queue.get: speak(text) is a plain call, and the worker is
\* back at the loop only after it has returned or raised
AtGet == tpc = "get"

\* _tts_worker: "if cooldown_s > 0 and (now - last_spoken_ts) < cooldown_s: continue"
SpeechCooldown(now) == cfg.cooldown > 0 /\ now - last_spoken_ts < cfg.cooldown

\* the comparison with the text spoken last left out
SimilarToSpoken_Never(text) == FALSE

\* _tts_worker: "if last_spoken_text and _is_similar(text, last_spoken_text): continue"
SimilarToSpoken(text) == Truthy(last_spoken_text) /\ Similar(text, last_spoken_text)

\* the sentinel taken for a text
IsSentinel_Never(item) == FALSE

\* _tts_worker: "if text is None:  # sentinel"
IsSentinel(item) == item = Sentinel

\* "while True:": the worker ends on the sentinel only
TtsLoop_IgnoresStop ==
    /\ tpc = "loop"
    /\ tpc' = "get"
    /\ UNCHANGED <<cfg, env, cmp, ds, de, ani, last_detection_key_lock, clock, mainVars, fut, wk, procVars, enqVars, tts_queue,
                   stop_event, ttext, tnow, last_spoken_text, last_spoken_ts, histVars>>

\* "while not stop_event.is_set():"
TtsLoop ==
    /\ tpc = "loop"
    /\ tpc' = IF stop_event THEN "exited" ELSE "get"
    /\ UNCHANGED <<cfg, env, cmp, ds, de, ani, last_detection_key_lock, clock, mainVars, fut, wk, procVars, enqVars, tts_queue,
                   stop_event, ttext, tnow, last_spoken_text, last_spoken_ts, histVars>>

\* tts_queue.get(timeout=0.25) raises queue.Empty: continue
TtsTimeout ==
    /\ AtGet
    /\ tts_queue = <<>>
    /\ tpc' = "loop"
    /\ UNCHANGED <<cfg, env, cmp, ds, de, ani, last_detection_key_lock, clock, mainVars, fut, wk, procVars, enqVars, tts_queue,
                   stop_event, ttext, tnow, last_spoken_text, last_spoken_ts, histVars>>

\* tts_queue.get returns an item: the sentinel ends the worker; a text is dropped
\* by the cooldown or the similarity check, or speak(text) is called
TtsGet ==
    /\ AtGet
    /\ tts_queue # <<>>
    /\ tts_queue' = Tail(tts_queue)
    /\ LET text == Head(tts_queue)
           now == clock
       IN  IF IsSentinel(text)
           THEN /\ tpc' = "returned"
                /\ UNCHANGED <<ttext, tnow, spoke_at, trk, log>>
           ELSE IF SpeechCooldown(now)
           THEN /\ tpc' = "loop"
                /\ trk' = TrackTaken(FALSE, "cooldown")
                /\ UNCHANGED <<ttext, tnow, spoke_at, log>>
           ELSE IF SimilarToSpoken(text)
           THEN /\ tpc' = "loop"
                /\ trk' = TrackTaken(FALSE, "similar")
                /\ UNCHANGED <<ttext, tnow, spoke_at, log>>
           ELSE /\ tpc' = "speaking"
                /\ ttext' = text
                /\ tnow' = now
                /\ spoke_at' = now
                /\ trk' = TrackTaken(TRUE, "spoken")
                /\ log' = LogSpeak(text)
    /\ UNCHANGED <<cfg, env, cmp, ds, de, ani, last_detection_key_lock, clock, mainVars, fut, wk, procVars, enqVars, stop_event,
                   last_spoken_text, last_spoken_ts, hist, compl>>

\* the time read again after speak(text) has returned
SpeakReturn_TimeAfter ==
    /\ tpc = "speaking"
    /\ tpc' = "loop"
    /\ last_spoken_text' = ttext
    /\ last_spoken_ts' = clock
    /\ ttext' = NoneText
    /\ tnow' = 0
    /\ UNCHANGED <<cfg, env, cmp, ds, de, ani, last_detection_key_lock, clock, mainVars, fut, wk, procVars, enqVars, tts_queue,
                   stop_event, histVars>>

\* speak(text) returns: last_spoken_text and last_spoken_ts are assigned
SpeakReturn ==
    /\ tpc = "speaking"
    /\ tpc' = "loop"
    /\ last_spoken_text' = ttext
    /\ last_spoken_ts' = tnow
    /\ ttext' = NoneText
    /\ tnow' = 0
    /\ UNCHANGED <<cfg, env, cmp, ds, de, ani, last_detection_key_lock, clock, mainVars, fut, wk, procVars, enqVars, tts_queue,
                   stop_event, histVars>>

\* the exception of speak(text) not caught: the worker thread ends
SpeakRaise_Uncaught ==
    /\ tpc = "speaking"
    /\ tpc' = "exited"
    /\ ttext' = NoneText
    /\ tnow' = 0
    /\ UNCHANGED <<cfg, env, cmp, ds, de, ani, last_detection_key_lock, clock, mainVars, fut, wk, procVars, enqVars, tts_queue,
                   stop_event, last_spoken_text, last_spoken_ts, histVars>>

\* speak(text) raises: "except Exception" prints, the assignments are skipped
SpeakRaise ==
    /\ tpc = "speaking"
    /\ tpc' = "loop"
    /\ ttext' = NoneText
    /\ tnow' = 0
    /\ UNCHANGED <<cfg, env, cmp, ds, de, ani, last_detection_key_lock, clock, mainVars, fut, wk, procVars, enqVars, tts_queue,
                   stop_event, last_spoken_text, last_spoken_ts, histVars>>

\* time passes
Tick ==
    /\ clock < StartTime + env.horizon
    /\ clock' = clock + 1
    /\ UNCHANGED <<cfg, env, cmp, ds, de, ani, last_detection_key_lock, mainVars, fut, wk, procVars, enqVars, tts_queue,
                   stop_event, ttsVars, histVars>>

(***************************************************************************)
(* The pipeline as started by main(), with the default smoothing (window   *)
(* and min_hits scaled down) and a cooldown.                               *)
(***************************************************************************)
Person == Det("person", FALSE)
PersonClose == Det("person", TRUE)
Car == Det("car", FALSE)

SpecScenes == {{}, {Person}, {PersonClose}}
SpecTexts == {TextCar, TextPerson}

Init ==
    InitWith(Config(2, 2, 1, 1, 0),
             [scenes |-> SpecScenes, texts |-> SpecTexts, frames |-> MaxFrames + 1,
              horizon |-> MaxTime, trace |-> FALSE, note |-> FALSE,
              order |-> FALSE, keep |-> 0])

Next ==
    \/ MainFrame
    \/ MainCheck
    \/ MainAttach
    \/ Interrupt
    \/ Finally
    \/ \E w \in Workers : WorkerTake(w)
    \/ \E w \in Workers : Detect(w)
    \/ \E w \in Workers : LeaveGate(w)
    \/ \E w \in Workers : Describe(w)
    \/ \E w \in Workers : RecordKey(w)
    \/ \E w \in Workers : CallbackCheck(w)
    \/ \E w \in Workers : CallbackPut(w)
    \/ TtsLoop
    \/ TtsTimeout
    \/ TtsGet
    \/ SpeakReturn
    \/ SpeakRaise
    \/ Tick

Spec == Init /\ [][Next]_vars

\* the threads are scheduled: the speech worker takes its next step (get returns an
\* item or times out after 0.25 s, a call of speak returns or raises), and the
\* main thread runs its finally clause once it has reached it
Fairness ==
    /\ WF_vars(TtsLoop)
    /\ WF_vars(TtsTimeout)
    /\ WF_vars(TtsGet)
    /\ WF_vars(SpeakReturn \/ SpeakRaise)
    /\ WF_vars(Finally)

SpecLive == Spec /\ Fairness

(***************************************************************************)
(* The narration queue under load: every frame is sampled and every frame  *)
(* shows a very close hazard, so that every cycle calls the generator.     *)
(***************************************************************************)
InitQueue ==
    InitWith(Config(1, 2, 1, 1, 0),
             [scenes |-> {{PersonClose}}, texts |-> SpecTexts, frames |-> MaxFrames - 1,
              horizon |-> MaxTime, trace |-> FALSE, note |-> TRUE,
              order |-> FALSE, keep |-> 0])

SpecQueue == InitQueue /\ [][Next]_vars

(***************************************************************************)
(* The analysis cycles alone: the main loop and the executor with the      *)
(* configurations and scenes that the stabilizer and the scene-change gate  *)
(* distinguish, the cycles being recorded in hist.  The speech worker does  *)
(* not run: no state that process_frame reads depends on it.               *)
(***************************************************************************)
ProcConfigs ==
    {Config(1, 1, 1, 0, 0), Config(1, 0, 1, 0, 0), Config(1, 2, 2, 0, 0),
     Config(1, 2, 1, 0, 1)}

ProcScenes == {{}, {Person}, {PersonClose}, {Car}}

\* with no cooldown and no force interval no timestamp is ever compared: the
\* clock then stands still
InitProc ==
    \E c \in ProcConfigs :
        InitWith(c, [scenes |-> ProcScenes, texts |-> {TextCar},
                     frames |-> MaxFrames - 1,
                     horizon |-> IF c.force > 0 THEN MaxTime ELSE 0,
                     trace |-> TRUE, note |-> FALSE,
              order |-> FALSE, keep |-> 0])

NextProc ==
    \/ MainFrame
    \/ MainCheck
    \/ MainAttach
    \/ \E w \in Workers : WorkerTake(w)
    \/ \E w \in Workers : Detect(w)
    \/ \E w \in Workers : LeaveGate(w)
    \/ \E w \in Workers : Describe(w)
    \/ \E w \in Workers : RecordKey(w)
    \/ \E w \in Workers : CallbackCheck(w)
    \/ \E w \in Workers : CallbackPut(w)
    \/ Tick

SpecProc == InitProc /\ [][NextProc]_vars

(***************************************************************************)
(* The dedup gate alone: every frame is sampled and stable at once, the    *)
(* scene is a very close person or a car, the generator returns one of two *)
(* texts that _is_similar takes for the same, with and without an enqueue  *)
(* cooldown.  Nothing drains the queue; cycles and outcomes are recorded.  *)
(***************************************************************************)
GateScenes == {{PersonClose}, {Car}}
GateTexts == {TextCar, TextCarAgain}

InitGate ==
    \E c \in {Config(1, 1, 1, 0, 0), Config(1, 1, 1, 1, 0)} :
        InitWith(c, [scenes |-> GateScenes, texts |-> GateTexts,
                     frames |-> MaxFrames - 1,
                     horizon |-> IF c.cooldown > 0 THEN MaxTime ELSE 0,
                     trace |-> TRUE, note |-> TRUE,
              order |-> FALSE, keep |-> 0])

SpecGate == InitGate /\ [][NextProc]_vars

(***************************************************************************)
(* The order of narrations: the whole pipeline with every frame sampled,   *)
(* a very close hazard in every frame and no cooldown, the texts put on    *)
(* the queue and the texts passed to speak being recorded in log.          *)
(***************************************************************************)
InitOrder ==
    InitWith(Config(1, 2, 1, 0, 0),
             [scenes |-> {{PersonClose}}, texts |-> SpecTexts, frames |-> MaxFrames - 1,
              horizon |-> 0, trace |-> FALSE, note |-> FALSE, order |-> TRUE, keep |-> 0])

\* without a cooldown no timestamp is compared and the clock stands still
NextOrder ==
    \/ MainFrame
    \/ MainCheck
    \/ MainAttach
    \/ Interrupt
    \/ Finally
    \/ \E w \in Workers : WorkerTake(w)
    \/ \E w \in Workers : Detect(w)
    \/ \E w \in Workers : LeaveGate(w)
    \/ \E w \in Workers : Describe(w)
    \/ \E w \in Workers : RecordKey(w)
    \/ \E w \in Workers : CallbackCheck(w)
    \/ \E w \in Workers : CallbackPut(w)
    \/ TtsLoop
    \/ TtsTimeout
    \/ TtsGet
    \/ SpeakReturn
    \/ SpeakRaise

SpecOrder == InitOrder /\ [][NextOrder]_vars

(***************************************************************************)
(* _is_similar alone: one call on every pair of strings of at most MaxLen  *)
(* characters over an alphabet with a lower-case letter, an upper-case     *)
(* letter, a punctuation mark and a blank.  The pipeline stands still.     *)
(***************************************************************************)
SimAlphabet == {"a", "B", "!", " "}

SimStrings == UNION {[1..k -> SimAlphabet] : k \in 0..MaxLen}

InitSim ==
    /\ cfg = Config(1, 1, 1, 0, 0)
    /\ env = [scenes |-> {}, texts |-> {}, frames |-> 0, horizon |-> 0,
              trace |-> FALSE, note |-> FALSE,
              order |-> FALSE, keep |-> 0]
    /\ clock = StartTime
    /\ mpc = "loop"
    /\ frame_idx = 0
    /\ pending = 0
    /\ fut = <<>>
    /\ wk = [w \in Workers |-> IdleWorker]
    /\ recent_label_sets = <<>>
    /\ last_detection_key = NoneKey
    /\ last_detection_key_lock = Free
    /\ last_ai_ts = 0
    /\ last_enqueue_ts = 0
    /\ last_enqueued_text = NoneText
    /\ last_enqueued_detection_key = NoneKey
    /\ tts_queue = <<>>
    /\ stop_event = FALSE
    /\ tpc = "loop"
    /\ ttext = NoneText
    /\ tnow = 0
    /\ last_spoken_text = NoneText
    /\ last_spoken_ts = 0
    /\ hist = <<>>
    /\ compl = "none"
    /\ spoke_at = -1
    /\ trk = NoTrack
    /\ log = NoLog
    /\ \E a \in SimStrings, b \in SimStrings :
          cmp = [a |-> a, b |-> b, pc |-> "call", out |-> FALSE]
    /\ ds = NoCall
    /\ de = NoDecision
    /\ ani = NoEngine

\* _is_similar(a, b) returns
Compare ==
    /\ cmp.pc = "call"
    /\ cmp' = [cmp EXCEPT !.pc = "done", !.out = IsSimilarText(cmp.a, cmp.b)]
    /\ UNCHANGED <<progVars, histVars, ds, de, ani>>

NextSim == Compare

SpecSim == InitSim /\ [][NextSim]_vars

(***************************************************************************)
(* describe_scene alone, from the head of its retry loop: one call for     *)
(* every number of retries up to MaxRetries and every course the attempts  *)
(* can take.  The pipeline stands still.                                   *)
(***************************************************************************)
\* what one attempt can come to: generate_content returns a response with a text
\* ("text") or with none ("none"); it raises a ClientError with a 4xx status
\* ("client4xx") or without one ("client"), a ServerError ("server") or another
\* exception ("other"); or _get_client raises before the model is called ("noclient")
Outcomes == {"text", "none", "client4xx", "client", "server", "other", "noclient"}

\* the attempts that end in a return statement inside the loop
Returning == {"text", "none", "client4xx"}

\* time.sleep after every failed attempt, the last included
SleepsAfter_Always(attempt, retries) == TRUE

\* "if attempt < retries:" before time.sleep
SleepsAfter(attempt, retries) == attempt < retries

\* "0.5 * (2 ** attempt)", in half seconds
Backoff(attempt) == 2 ^ attempt

Standstill ==
    /\ cfg = Config(1, 1, 1, 0, 0)
    /\ clock = StartTime
    /\ mpc = "loop"
    /\ frame_idx = 0
    /\ pending = 0
    /\ fut = <<>>
    /\ wk = [w \in Workers |-> IdleWorker]
    /\ recent_label_sets = <<>>
    /\ last_detection_key = NoneKey
    /\ last_detection_key_lock = Free
    /\ last_ai_ts = 0
    /\ last_enqueue_ts = 0
    /\ last_enqueued_text = NoneText
    /\ last_enqueued_detection_key = NoneKey
    /\ tts_queue = <<>>
    /\ stop_event = FALSE
    /\ tpc = "loop"
    /\ ttext = NoneText
    /\ tnow = 0
    /\ last_spoken_text = NoneText
    /\ last_spoken_ts = 0
    /\ hist = <<>>
    /\ compl = "none"
    /\ spoke_at = -1
    /\ trk = NoTrack
    /\ log = NoLog
    /\ cmp = NoCompare
    /\ de = NoDecision

InitRetry ==
    /\ Standstill
    /\ env = [scenes |-> {}, texts |-> {TextCar}, frames |-> 0, horizon |-> 0,
              trace |-> FALSE, note |-> FALSE, order |-> FALSE, keep |-> 0]
    /\ \E r \in 0..MaxRetries : ds = [NoCall EXCEPT !.pc = "try", !.retries = r]
    /\ ani = NoEngine

\* one turn of "for attempt in range(retries + 1):", up to the next attempt or to
\* the return of describe_scene
DescribeAttempt ==
    /\ ds.pc = "try"
    /\ \E o \in Outcomes, text \in env.texts :
          LET returns == o \in Returning
              again == ~returns /\ ds.attempt < ds.retries
          IN  ds' = [ds EXCEPT
                        !.calls = IF o = "noclient" THEN @ ELSE @ + 1,
                        !.outcomes = Append(@, o),
                        !.result = IF o = "text" THEN text ELSE NoneText,
                        !.sleeps = IF ~returns /\ SleepsAfter(ds.attempt, ds.retries)
                                   THEN Append(@, Backoff(ds.attempt)) ELSE @,
                        !.attempt = IF again THEN @ + 1 ELSE @,
                        !.pc = IF again THEN "try" ELSE "done"]
    /\ UNCHANGED <<progVars, histVars, cmp, de, ani>>

NextRetry == DescribeAttempt

SpecRetry == InitRetry /\ [][NextRetry]_vars

(***************************************************************************)
(* Properties of the pipeline.                                             *)
(***************************************************************************)
\* a step of the main loop that takes a frame from the camera
FrameArrives == frame_idx' = frame_idx + 1

\* a step of the main loop that submits a frame to the executor
Submits == pending' # pending

\* the futures whose process_frame call is in progress
RunningFutures == {id \in DOMAIN fut : fut[id].st = "running"}

\* the futures submitted and not yet completed
InFlight == {id \in DOMAIN fut : fut[id].st \in {"pending", "running"}}

\* C1: at every instant at most one execution of process_frame (detector call, then
\* generator call) is active, and the main loop submits a frame only when it holds
\* no future or the future it holds has completed, so that nothing is in flight at
\* a submission.
C1_SingleAnalysis ==
    /\ [](ActiveAnalyses <= 1 /\ Cardinality(RunningFutures) <= 1)
    /\ [][Submits => /\ pending = 0 \/ Done(pending)
                     /\ InFlight = {}
                     /\ InFlight' = {pending'}]_vars

\* a sampled frame has arrived while the previous analysis was running, and was not
\* submitted
C1_Witness ==
    /\ frame_idx = 4
    /\ pending = 2
    /\ fut[2].st = "running"
    /\ fut[4].st = "none"
    /\ ActiveAnalyses = 1

\* C2: with a cooldown C > 0, any two calls of the speech sink by the speech worker
\* are at least C seconds apart, whether the earlier call returned or raised.
C2_SpeakGap ==
    [][(tpc # "speaking" /\ tpc' = "speaking" /\ cfg.cooldown > 0 /\ spoke_at # -1)
          => spoke_at' - spoke_at >= cfg.cooldown]_vars

\* a completion reads the text its future holds
TextCompletion ==
    \E id \in DOMAIN fut :
        /\ fut[id].st = "finished"
        /\ fut[id].res \notin {NoneText, Exc, Cancelled}
        /\ fut'[id].res = NoneText

\* C3: the narration queue never holds more than 2 items, the sentinel included; a
\* completion that finds the queue full leaves the queue and the enqueue state as
\* they are and ends at once, without an exception: its text is dropped.
C3_QueueBound ==
    /\ [](Len(tts_queue) <= 2)
    /\ [][(TextCompletion /\ QueueFull) =>
             /\ UNCHANGED <<tts_queue, enqVars>>
             /\ compl' \in {"cooldown", "duplicate", "full"}
             /\ mpc' # mpc => mpc' = "loop"
             /\ \A w \in Workers : wk'[w].pc = "idle"]_vars

\* three narrations were produced while the speech worker took nothing: the first
\* two are queued, the third found the queue full and was dropped
C3_Witness ==
    /\ compl = "full"
    /\ Len(tts_queue) = 2
    /\ Sentinel \notin {tts_queue[i] : i \in 1..Len(tts_queue)}
    /\ spoke_at = -1
    /\ \A id \in 1..3 : fut[id].st = "finished"
    /\ mpc = "loop"

\* the cycles that computed a DetectionKey (the detector returned detections)
Keyed(c) == c.kind \in {"skip", "dispatch"}
KeyedCycles == SelectSeq(hist, Keyed)

\* the cycles that pushed a label set into the window (the detector returned)
Processed(c) == c.kind # "error"
ProcessedCycles == SelectSeq(hist, Processed)

LabelsOf(c) == {d.label : d \in c.dets}
Range(t) == {t[i] : i \in 1..Len(t)}

\* two consecutive keyed cycles with the same key, no urgent override in the second
\* and no force interval
SameKeyPair(i) ==
    /\ cfg.force = 0
    /\ KeyedCycles[i].key = KeyedCycles[i + 1].key
    /\ ~KeyedCycles[i + 1].urgent

UrgentIn(c) == \E d \in c.dets : d.vc /\ d.label \in Range(c.key)

\* C5: a cycle whose DetectionKey equals the last recorded key and which has a
\* stable detection at distance very_close calls the generator, with or without a
\* force interval.
C5_UrgentOverride ==
    \A i \in 1..Len(hist) :
        (Keyed(hist[i]) /\ hist[i].before = hist[i].key /\ UrgentIn(hist[i]))
            => hist[i].kind = "dispatch"

\* an unchanged scene with a very close hazard was narrated again, under a
\* configuration without a force interval
C5_Witness ==
    /\ cfg.force = 0
    /\ \E i \in 1..Len(hist) :
          /\ Keyed(hist[i])
          /\ hist[i].before = hist[i].key
          /\ UrgentIn(hist[i])
          /\ hist[i].kind = "dispatch"
          /\ hist[i].out = "text"

\* the number of the K frames ending at the j-th processed one that show label l
Hits(l, j) ==
    Cardinality({i \in (j - WindowCap + 1)..j : l \in LabelsOf(ProcessedCycles[i])})

\* C6: with window capacity K and min_hits M <= K, once K frames are processed a
\* label shown by every one of the last K frames is stable, and a label shown by
\* fewer than M of them is not.
C6_Stabilizer ==
    cfg.M <= WindowCap =>
        \A j \in WindowCap..Len(ProcessedCycles) : \A l \in Labels :
            Keyed(ProcessedCycles[j]) =>
                /\ Hits(l, j) = WindowCap => l \in Range(ProcessedCycles[j].key)
                /\ Hits(l, j) < cfg.M => l \notin Range(ProcessedCycles[j].key)

\* with K = M = 2: a label seen once in the last two frames was not stable, and
\* became stable when the next frame showed it again
C6_Witness ==
    /\ cfg.W = 2 /\ cfg.M = 2
    /\ Len(ProcessedCycles) = 3
    /\ \A j \in 2..3 : Keyed(ProcessedCycles[j])
    /\ Hits("person", 2) = 1 /\ "person" \notin Range(ProcessedCycles[2].key)
    /\ Hits("person", 3) = 2 /\ "person" \in Range(ProcessedCycles[3].key)

\* the last n elements of a sequence
LastN(q, n) == SubSeq(q, Len(q) - n + 1, Len(q))

\* C7: after every processed frame the window holds the label sets of the most
\* recent min(n, K) processed frames in arrival order, a frame without detections
\* counting as the empty set, with K = max(1, window size): never more than K.
C7_Window ==
    LET n == Len(ProcessedCycles)
        k == IF n < WindowCap THEN n ELSE WindowCap
    IN  /\ Len(recent_label_sets) <= (IF cfg.W >= 1 THEN cfg.W ELSE 1)
        /\ recent_label_sets = [i \in 1..k |-> LabelsOf(LastN(ProcessedCycles, k)[i])]

\* three frames went through a window of two: the first frame's set has left, and
\* a frame without detections holds a place
C7_Witness ==
    /\ cfg.W = 2
    /\ Len(ProcessedCycles) = 3
    /\ LabelsOf(ProcessedCycles[1]) = {"person"}
    /\ recent_label_sets = <<{}, {"car"}>>

\* C8: a frame reaches the busy check iff its index is a multiple of the stride N:
\* a frame that is no multiple changes nothing but the frame counter, a multiple
\* arriving at a free slot is submitted, and whatever is submitted is the frame
\* that has just arrived and a multiple of N.
C8_Stride ==
    [][/\ (FrameArrives /\ frame_idx' % cfg.N # 0) =>
              UNCHANGED <<cfg, clock, mpc, pending, fut, wk, procVars, enqVars,
                          tts_queue, stop_event, ttsVars>>
       /\ (FrameArrives /\ frame_idx' % cfg.N = 0 /\ (pending = 0 \/ Done(pending))) =>
              Submits
       /\ Submits =>
              /\ FrameArrives
              /\ frame_idx' % cfg.N = 0
              /\ pending' = frame_idx'
              /\ fut'[pending'].st = "pending"]_vars

\* with N = 2: frame 4 was dropped at the busy slot, and frame 5, arriving after
\* the analysis of frame 2 had completed, was not submitted in its place
C8_Witness ==
    /\ cfg.N = 2
    /\ frame_idx = 5
    /\ pending = 2
    /\ fut[2].st = "finished"
    /\ fut[4].st = "none"
    /\ fut[5].st = "none"
    /\ mpc = "loop"

\* C9: a sampled frame arriving while the pending analysis has not completed
\* leaves the pending handle, the futures, the worker, the window, the last
\* detection key, the enqueue state and the narration queue as they are, and a
\* frame once passed over is never analyzed.
C9_BusyDrop ==
    [][/\ (FrameArrives /\ frame_idx' % cfg.N = 0 /\ pending # 0 /\ ~Done(pending)) =>
              UNCHANGED <<pending, fut, wk, recent_label_sets, last_detection_key,
                          enqVars, tts_queue, mpc>>
       /\ \A id \in DOMAIN fut :
              (id <= frame_idx /\ id # pending /\ fut[id].st = "none")
                  => fut'[id].st = "none"]_vars

\* frame 4 arrived while frame 2 was being analyzed; the analysis of frame 2 has
\* completed since, and frame 4 was never submitted
C9_Witness ==
    /\ frame_idx = 4
    /\ pending = 2
    /\ fut[2].st = "finished"
    /\ fut[4].st = "none"
    /\ \A w \in Workers : wk[w].pc = "idle"

\* stride 1, window 1, min_hits 1, no cooldown, no force interval, and the first
\* three cycles showing {person}, {person}, {car}, none of them very close
PersonPersonCar ==
    /\ cfg = Config(1, 1, 1, 0, 0)
    /\ Len(hist) >= 3
    /\ hist[1].dets = {Person} /\ hist[2].dets = {Person} /\ hist[3].dets = {Car}

Completes(res) ==
    \E id \in DOMAIN fut :
        /\ fut[id].st = "finished"
        /\ fut[id].res = res
        /\ res # NoneText
        /\ fut'[id].res = NoneText

\* a step in which a completion lets its text through the gate: the text is put on
\* the queue at once, or the callback goes on to put_nowait
PassesGate == tts_queue' # tts_queue \/ \E w \in Workers : wk'[w].pc = "put"

\* the speech worker's own two checks on a text it has taken
WorkerWouldSpeak(text) ==
    /\ ~(cfg.cooldown > 0 /\ clock - last_spoken_ts < cfg.cooldown)
    /\ ~(Truthy(last_spoken_text) /\ IsSimilarText(text, last_spoken_text))

\* the speech worker takes the narration that trk follows
TakesTracked == trk.live /\ trk.pos = 1 /\ tts_queue' = Tail(tts_queue)

\* C11 as stated: when the generator returns the same text again for the same key
\* and that completion falls inside the cooldown window of the first enqueue, the
\* two narrations result in exactly one call of the speech sink: once the speech
\* worker has taken the first narration, one call has been made.
C11_ExactlyOneSpoken ==
    (trk.dup /\ trk.handled) => trk.spoken = 1

\* C11: when the generator returns the same text again for the same key and that
\* completion falls inside the cooldown window of the first enqueue, the second
\* narration is rejected by the enqueue cooldown and never reaches the queue, so
\* that at most one call of the speech sink results from the two; the first
\* narration is spoken, once, exactly when it passes the speech worker's own
\* cooldown and similarity checks as it is taken, and is discarded otherwise.
C11_AtMostOneSpoken ==
    /\ [](trk.dup => trk.spoken <= 1)
    /\ [][\A t \in env.texts :
             (Completes(t) /\ RepeatInWindow(t, clock)) =>
                 /\ UNCHANGED <<tts_queue, enqVars>>
                 /\ ~PassesGate
                 /\ compl' = "cooldown"]_vars
    /\ [][TakesTracked =>
             /\ trk'.handled
             /\ trk'.spoken = 1 <=> WorkerWouldSpeak(Head(tts_queue))
             /\ trk'.spoken = 1 <=> (tpc' = "speaking" /\ ttext' = Head(tts_queue))]_vars

\* the same text came twice inside the cooldown window, and the one narration that
\* was enqueued has been spoken
C11_Witness ==
    /\ trk.dup
    /\ trk.handled
    /\ trk.spoken = 1
    /\ last_spoken_text = last_enqueued_text

\* C12: on non-empty input two strings with the same normalized form, and so a
\* string and itself, are similar, strings made only of punctuation included.
C12_Reflexive ==
    (/\ cmp.pc = "done"
     /\ cmp.a # <<>> /\ cmp.b # <<>>
     /\ Normalize(cmp.a) = Normalize(cmp.b)) => cmp.out

\* a step in which speak is called: the speech worker takes a text and goes on to
\* speak it
SpeakStarts == tts_queue # <<>> /\ tts_queue' = Tail(tts_queue) /\ tpc' = "speaking"

\* C13: the speech sink is invoked one call at a time: speak is called by the
\* speech worker only, a call starts only when no call is in progress, and the
\* worker goes back to its loop only when the call has returned or raised.
C13_OneSpeakAtATime ==
    /\ [](tpc = "speaking" <=> ttext # NoneText)
    /\ [][/\ SpeakStarts => (tpc = "get" /\ ttext = NoneText /\ ttext' = Head(tts_queue))
          /\ (tpc' = "speaking" /\ (tpc # "speaking" \/ ttext' # ttext \/ spoke_at' # spoke_at))
                 => SpeakStarts
          /\ (tpc = "speaking" /\ ~SpeakStarts) =>
                 \/ UNCHANGED <<tpc, ttext>>
                 \/ tpc' = "loop" /\ ttext' = NoneText]_vars

\* a call of speak is in progress after an earlier call has returned
C13_Witness ==
    /\ tpc = "speaking"
    /\ last_spoken_text # NoneText
    /\ ttext # last_spoken_text

\* a completion, on either path, of a future whose analysis raised
ErrorCompletion ==
    \E id \in DOMAIN fut :
        /\ fut[id].st = "finished"
        /\ fut[id].res = Exc
        /\ fut'[id].res = NoneText

\* C14: an exception raised in an analysis cycle never ends the sampling loop: on
\* both completion paths the completion of the failed cycle enqueues nothing, and
\* the main loop stays where it is or goes on with the next frame.
C14_ErrorsNeverStopLoop ==
    [][ErrorCompletion =>
           /\ UNCHANGED <<tts_queue, enqVars>>
           /\ mpc' = mpc \/ mpc' = "loop"]_vars

\* C15: a callback that has passed the checks of the gate and has not yet updated
\* last_enqueue_ts, last_enqueued_text and last_enqueued_detection_key holds
\* last_detection_key_lock (one lock spans the whole check-and-update)
C15_LockSpansCheckAndUpdate ==
    \A w \in Workers : wk[w].pc = "put" => last_detection_key_lock = WorkerThread(w)

\* the main thread handles the completed future on the immediate-completion path
SyncCompletion == mpc = "check" /\ Done(pending) /\ fut' # fut

\* C16: the immediate-completion path leaves the queue, last_enqueue_ts,
\* last_enqueued_text, last_enqueued_detection_key and the main loop as _on_done
\* would for the same outcome (text, None or exception) in the same state
C16_PathsEquivalent ==
    [][SyncCompletion =>
           LET res == fut[pending].res
           IN  /\ mpc' = "loop"
               /\ IF CallbackVerdict(res, clock) = "accept"
                  THEN Enqueue(res, clock, last_detection_key)
                  ELSE UNCHANGED <<enqVars, tts_queue>>]_vars

\* the detection key of the cycle that produced the text being completed
RecordKeyOf == hist[Len(hist)].key

\* a completion of a text that neither the cooldown nor a full queue stops
ReachesDuplicateCheck(t) ==
    Completes(t) /\ Truthy(t) /\ ~CooldownActive(clock) /\ ~QueueFull

\* C17: a text is rejected as a near-duplicate only if a text was enqueued before,
\* the key of its cycle equals the key enqueued last and it is similar to the text
\* enqueued last; a text similar to the last one, from a cycle with another key,
\* passes the gate when cooldown and capacity allow
C17_DuplicateNeedsSameKey ==
    [][\A t \in env.texts :
          ReachesDuplicateCheck(t) =>
             /\ ~PassesGate => /\ Truthy(last_enqueued_text)
                               /\ RecordKeyOf = last_enqueued_detection_key
                               /\ IsSimilarText(t, last_enqueued_text)
             /\ RecordKeyOf # last_enqueued_detection_key => PassesGate]_vars

\* a text similar to the one before it was enqueued for another key
C17_Witness ==
    /\ tts_queue = <<TextCar, TextCarAgain>>
    /\ IsSimilarText(TextCarAgain, TextCar)
    /\ Len(hist) = 2
    /\ hist[1].key = <<"person">>
    /\ hist[2].key = <<"car">>
    /\ last_enqueued_detection_key = <<"car">>

\* C18: a text whose completion comes less than cooldown_s after the last enqueue is
\* rejected by the cooldown, whatever the other checks would say (the queue may be
\* full, the text may be a duplicate); with cooldown_s = 0 no completion is rejected
\* by the cooldown, and a text for a new key passes when the queue has room
C18_CooldownFirst ==
    [][\A t \in env.texts :
          (Completes(t) /\ Truthy(t)) =>
             /\ (cfg.cooldown > 0 /\ clock - last_enqueue_ts < cfg.cooldown) =>
                   /\ ~PassesGate
                   /\ UNCHANGED <<tts_queue, enqVars>>
                   /\ compl' = "cooldown"
             /\ cfg.cooldown = 0 =>
                   /\ compl' # "cooldown"
                   /\ (~QueueFull /\ RecordKeyOf # last_enqueued_detection_key) => PassesGate]_vars

\* the cooldown has rejected a text while the queue was full
C18_Witness ==
    /\ compl = "cooldown"
    /\ cfg.cooldown > 0
    /\ Len(tts_queue) = QueueMaxSize
    /\ clock - last_enqueue_ts < cfg.cooldown

\* a completion accepts the text t: it is appended to the queue
Accepts(t) == tts_queue' = Append(tts_queue, t)

\* C19: last_enqueue_ts, last_enqueued_text and last_enqueued_detection_key change
\* only when a text is accepted, and then the text is pushed and all three are set
\* together (the text, the key of its cycle, the time of the completion); a
\* completion rejected by the cooldown, as a duplicate or by a full queue leaves
\* the queue and all three as they were
C19_EnqueueStateOnAccept ==
    /\ [][enqVars' # enqVars => \E t \in env.texts : Accepts(t)]_vars
    /\ [][\A t \in env.texts :
             Accepts(t) =>
                /\ last_enqueued_text' = t
                /\ last_enqueued_detection_key' = RecordKeyOf
                /\ \/ \E w \in Workers : wk[w].pc = "put" /\ last_enqueue_ts' = wk[w].now
                   \/ /\ \A w \in Workers : wk[w].pc # "put"
                      /\ last_enqueue_ts' = clock]_vars
    /\ [][\A t \in env.texts :
             (Completes(t) /\ ~PassesGate) => UNCHANGED <<tts_queue, enqVars>>]_vars

\* two texts were accepted and a third was rejected by the full queue: the text and
\* the key enqueued last are those of the second
C19_Witness ==
    /\ compl = "full"
    /\ Len(tts_queue) = QueueMaxSize
    /\ last_enqueued_text = tts_queue[QueueMaxSize]
    /\ last_enqueued_detection_key = hist[2].key
    /\ Len(hist) = 3

\* C20: a cycle whose frame has no detections, or whose stable label set is empty,
\* does not call the generator and produces no narration: its outcome is None
C20_EmptyStableNoNarration ==
    /\ [](\A i \in 1..Len(hist) :
             (hist[i].kind = "nodet" \/ hist[i].key = <<>>) => hist[i].out \in {"none", "guard"})
    /\ [][\A w \in Workers :
             (wk[w].pc = "describe" /\ wk[w].key = <<>> /\ wk'[w].pc # "describe") =>
                /\ wk'[w].pc # "record"
                /\ fut'[wk[w].task].res = NoneText
                /\ UNCHANGED last_detection_key]_vars

\* a frame with a person whose label has not reached min_hits: describe_scene was
\* called with no detections and returned at its first test
C20_Witness ==
    /\ Len(hist) = 1
    /\ hist[1].dets = {Person}
    /\ hist[1].key = <<>>
    /\ hist[1].out = "guard"
    /\ fut[1].st = "finished"
    /\ last_detection_key = NoneKey

\* the worker w evaluates the scene-change condition for a key that is not empty,
\* equals last_detection_key and comes with no urgent hazard
GateOnUnchanged(w) ==
    /\ wk[w].pc = "detect"
    /\ wk'[w].pc \in {"skip", "pass"}
    /\ wk'[w].key # <<>>
    /\ wk'[w].key = last_detection_key
    /\ ~HasUrgentHazard(wk'[w].dets)

\* C21: for an unchanged non-empty key without urgent hazard the cycle goes on to
\* describe_scene if and only if force_narration_every_s > 0 and at least that many
\* seconds have passed since last_ai_ts; with force_narration_every_s = 0 it never does
C21_ForceInterval ==
    [][\A w \in Workers :
          GateOnUnchanged(w) =>
             (wk'[w].pc = "pass" <=> (cfg.force > 0 /\ clock - last_ai_ts >= cfg.force))]_vars

\* an unchanged scene goes to describe_scene because the force interval has passed
C21_Witness ==
    \E w \in Workers :
        /\ wk[w].pc = "pass"
        /\ wk[w].key = last_detection_key
        /\ wk[w].key # <<>>
        /\ ~HasUrgentHazard(wk[w].dets)
        /\ cfg.force > 0
        /\ clock - last_ai_ts >= cfg.force
        /\ last_ai_ts >= StartTime

\* the speech worker takes the text t from the queue
Dequeues(t) ==
    /\ tpc = "get"
    /\ tts_queue # <<>>
    /\ Head(tts_queue) = t
    /\ tts_queue' = Tail(tts_queue)

\* t is similar to the text spoken last, or comes less than cooldown_s after it
MustDiscard(t, now) ==
    \/ cfg.cooldown > 0 /\ now - last_spoken_ts < cfg.cooldown
    \/ Truthy(last_spoken_text) /\ IsSimilarText(t, last_spoken_text)

\* C22: a text taken from the queue less than cooldown_s after last_spoken_ts, or
\* similar to last_spoken_text, is never passed to speak: it is dropped (it is not
\* put back), the worker is back at its loop, last_spoken_text and last_spoken_ts
\* are unchanged; speak is only ever running on a text that passed both tests
C22_WorkerDiscards ==
    /\ [][\A t \in env.texts :
             (Dequeues(t) /\ MustDiscard(t, clock)) =>
                /\ tpc' = "loop"
                /\ UNCHANGED <<last_spoken_text, last_spoken_ts, ttext, spoke_at>>]_vars
    /\ [](tpc = "speaking" => ~MustDiscard(ttext, tnow))

\* a text equal to the one spoken last was taken after the cooldown and dropped:
\* the queue is empty, nothing is being spoken, the text spoken last is the same
C22_Witness ==
    /\ trk.handled
    /\ trk.spoken = 0
    /\ trk.why = "similar"
    /\ tpc = "loop"
    /\ tts_queue = <<>>
    /\ last_spoken_text = last_enqueued_text
    /\ ~(cfg.cooldown > 0 /\ clock - last_spoken_ts < cfg.cooldown)

\* the speech worker takes the sentinel from the queue
DequeuesSentinel ==
    /\ tpc = "get"
    /\ tts_queue # <<>>
    /\ Head(tts_queue) = Sentinel
    /\ tts_queue' = Tail(tts_queue)

\* C23: the speech worker that takes the sentinel returns; from then on it takes
\* nothing from the queue and makes no call of speak, so that whatever is in the
\* queue, or is put there afterwards, stays there
C23_SentinelTerminates ==
    /\ [][DequeuesSentinel => tpc' = "returned"]_vars
    /\ [][tpc = "returned" =>
             /\ tpc' = "returned"
             /\ tts_queue' = tts_queue \/ \E x \in env.texts : tts_queue' = Append(tts_queue, x)
             /\ UNCHANGED <<spoke_at, ttext, tnow, last_spoken_text, last_spoken_ts>>]_vars

\* the worker has returned on the sentinel and a callback has put a text on the
\* queue after it
C23_Witness ==
    /\ tpc = "returned"
    /\ mpc = "exited"
    /\ tts_queue # <<>>
    /\ tts_queue[1] \in env.texts

\* the call of speak ends with an exception: the worker leaves it, and the text
\* spoken last is not the text of this call
SpeakFails ==
    /\ tpc = "speaking"
    /\ tpc' # "speaking"
    /\ last_spoken_text' # ttext

\* C24: when speak raises, the speech worker is back at the head of its loop with
\* the queue as it was, and from the head of the loop it goes on to the next get
\* unless stop_event is set: the failed call ends like a completed one
C24_SpeakErrorContained ==
    /\ [][SpeakFails => tpc' = "loop" /\ UNCHANGED <<tts_queue, stop_event>>]_vars
    /\ [][(tpc = "loop" /\ ~stop_event /\ tpc' # tpc) => tpc' = "get"]_vars

\* speak was called for the text enqueued last and raised (no text counts as
\* spoken), and the worker is waiting for the next item
C24_Witness ==
    /\ trk.handled
    /\ trk.why = "spoken"
    /\ last_spoken_text = NoneText
    /\ tpc = "get"
    /\ ~stop_event

\* the speech worker thread has ended
Terminated == tpc \in {"exited", "returned"}

\* C25: once the finally clause is reached it runs to its end whatever the state of
\* the queue and of the analysis in flight, and once stop_event is set the speech
\* worker ends, the sentinel put on the queue or not
C25_ShutdownTerminates ==
    /\ (mpc = "finally") ~> (mpc = "exited")
    /\ stop_event ~> Terminated

\* the queue was full when the finally clause ran: the sentinel was never put, and
\* the worker has ended on stop_event with texts left in the queue
C25_Witness ==
    /\ mpc = "exited"
    /\ tpc = "exited"
    /\ tts_queue # <<>>
    /\ \A i \in 1..Len(tts_queue) : tts_queue[i] # Sentinel

\* the worker w is inside estimate_depth, detector.detect or describe_scene
InExternalCall(w) == wk[w].pc \in {"detect", "describe"}

\* C26 as stated: in every state in which an external call is executing, in
\* whatever thread, the lock is free
C26_NoLockHeldAnywhere ==
    ((\E w \in Workers : InExternalCall(w)) \/ tpc = "speaking") =>
        last_detection_key_lock = Free

\* C26: a thread that is executing an external call holds no lock: the executor's
\* worker does not hold last_detection_key_lock while the depth estimator, the
\* detector or describe_scene runs, and the lock is never held by the speech
\* worker, which calls speak
C26_NoLockInExternalCall ==
    /\ \A w \in Workers : InExternalCall(w) => last_detection_key_lock # WorkerThread(w)
    /\ last_detection_key_lock \in {Free} \cup {WorkerThread(w) : w \in Workers}

\* the lock is held between the detector call and describe_scene, while speak runs
\* in the speech worker
C26_Witness ==
    /\ \E w \in Workers : wk[w].pc = "pass" /\ last_detection_key_lock = WorkerThread(w)
    /\ tpc = "speaking"

\* a is b with some of its elements left out
RECURSIVE IsSubsequence(_, _)
IsSubsequence(a, b) ==
    IF a = <<>> THEN TRUE
    ELSE IF b = <<>> THEN FALSE
    ELSE IF Head(a) = Head(b) THEN IsSubsequence(Tail(a), Tail(b))
    ELSE IsSubsequence(a, Tail(b))

\* C27: the texts passed to speak, in the order of the calls, are the texts put on
\* the queue, in the order of the puts, with some of them left out
C27_Fifo == IsSubsequence(log.spoken, log.pushed)

\* two different texts were put on the queue and both were passed to speak, in the
\* order of the puts
C27_Witness ==
    /\ Len(log.spoken) = 2
    /\ log.spoken[1] # log.spoken[2]
    /\ log.pushed = log.spoken

\* the most recent cycle of h called the generator and got None
EndsEmpty(h) == h # <<>> /\ h[Len(h)].out = "empty"

\* C28: from the step in which describe_scene returns None for a cycle until the
\* next cycle starts, the completion included, nothing is put on the queue and
\* last_detection_key, last_ai_ts, last_enqueue_ts, last_enqueued_text and
\* last_enqueued_detection_key stay as they were
C28_EmptyTextNoOutput ==
    [][(EndsEmpty(hist') /\ Len(hist') = Len(hist)) =>
           UNCHANGED <<last_detection_key, last_ai_ts, enqVars, tts_queue>>]_vars

\* after a narration for a person was enqueued, the generator returned None for a
\* car: the completion has run, and the key, the queue and the text enqueued last
\* are those of the first cycle
C28_Witness ==
    /\ Len(hist) = 2
    /\ hist[1].out = "text"
    /\ hist[2].out = "empty"
    /\ hist[2].key # hist[1].key
    /\ compl = "empty"
    /\ last_detection_key = hist[1].key
    /\ last_enqueued_detection_key = hist[1].key
    /\ tts_queue = <<last_enqueued_text>>

\* C29: describe_scene makes at most retries + 1 calls of the model; an attempt in
\* which the model returned a response or raised a 4xx client error is the last
\* one; there is one sleep of 0.5 * 2^attempt seconds between two attempts and none
\* after the last; the loop counter never passes retries, so the function returns;
\* and it returns None unless the last attempt brought a text
C29_RetryLoop ==
    LET n == Len(ds.outcomes)
    IN  /\ ds.calls <= ds.retries + 1
        /\ n <= ds.retries + 1
        /\ ds.attempt <= ds.retries
        /\ ds.pc = "try" => n = ds.attempt
        /\ \A i \in 1..(n - 1) : ds.outcomes[i] \notin Returning
        /\ Len(ds.sleeps) = IF ds.pc = "done" THEN n - 1 ELSE n
        /\ \A i \in 1..Len(ds.sleeps) : ds.sleeps[i] = 2 ^ (i - 1)
        /\ (ds.pc = "done" /\ ds.outcomes[n] # "text") => ds.result = NoneText
        /\ ds.pc \in {"try", "done"}

\* every attempt raised: the model was called retries + 1 times, slept between the
\* attempts, and describe_scene has returned None
C29_Witness ==
    /\ ds.pc = "done"
    /\ ds.retries = MaxRetries
    /\ ds.calls = MaxRetries + 1
    /\ \A i \in 1..Len(ds.outcomes) : ds.outcomes[i] \in {"client", "server", "other"}
    /\ Len(ds.sleeps) = MaxRetries
    /\ ds.result = NoneText

\* the main thread handles the completion of its future, on the immediate path or
\* by running _on_done at once
MainCompletion ==
    /\ mpc \in {"check", "attach"}
    /\ Done(pending)
    /\ fut'[pending].seen = fut[pending].seen + 1

\* the worker w is running _on_done: its checks are still to come, or they are
\* passed and put_nowait and the assignments are still to come
InCallback(w) == wk[w].pc \in {"cb", "put"}

\* C30: no two completions handle their results at the same time: the main thread
\* handles one only while no callback is running in the executor, and at most one
\* callback is running; and the result of an analysis is handled exactly once: never
\* twice, and once by the time the main thread is back in its loop and the worker
\* is idle
C30_CompletionsExclusive ==
    /\ [][MainCompletion => \A w \in Workers : ~InCallback(w)]_vars
    /\ [](Cardinality({w \in Workers : InCallback(w)}) <= 1)
    /\ [](\A id \in DOMAIN fut : fut[id].seen <= 1)
    /\ []((mpc = "loop" /\ \A w \in Workers : wk[w].pc = "idle") =>
             \A id \in DOMAIN fut : fut[id].st = "finished" => fut[id].seen = 1)

\* a callback has passed its checks and has not yet put its text, while the main
\* thread, with the next analysis submitted, is at "if pending.done()"
C30_Witness ==
    \E w \in Workers :
        /\ wk[w].pc = "put"
        /\ mpc = "check"
        /\ pending # wk[w].task
        /\ fut[wk[w].task].seen = 1

\* the place in hist of the cycle run for the future id: the worker takes the
\* futures in the order of their submission
CycleOf(id) == Cardinality({j \in 1..id : fut[j].st \in {"running", "finished"}})

\* a completion handler reads the text t as the result of the future id
Handles(id, t) ==
    /\ fut[id].st = "finished"
    /\ fut[id].res = t
    /\ fut'[id].seen = fut[id].seen + 1

\* C31: when a completion handles the text of an analysis, last_detection_key is
\* the key which that analysis computed, and no later analysis has started
C31_KeyOfOwnTask ==
    [][\A id \in DOMAIN fut : \A t \in env.texts :
          Handles(id, t) =>
             /\ CycleOf(id) = Len(hist)
             /\ last_detection_key = hist[CycleOf(id)].key]_vars

\* the callback of the second analysis has read the key of its own cycle, which
\* differs from the key of the first, while the main thread has gone on
C31_Witness ==
    \E w \in Workers :
        /\ wk[w].pc = "put"
        /\ Len(hist) = 2
        /\ CycleOf(wk[w].task) = 2
        /\ hist[1].out = "text"
        /\ hist[2].key # hist[1].key
        /\ wk[w].key = hist[2].key
        /\ frame_idx > wk[w].task

(***************************************************************************)
(* A change of scene on an endless stream: every frame is sampled and      *)
(* stable at once, the scene is a car or a person, neither very close, the *)
(* force interval is 0 and the enqueue cooldown is 1.  Nothing drains the  *)
(* queue.  Frames keep arriving: the frame counter and the table of        *)
(* futures start again once a round of frames has been handled, and hist   *)
(* keeps the latest cycle only.  The main thread and the executor's thread *)
(* are scheduled.                                                          *)
(***************************************************************************)
ChangeScenes == {{Car}, {Person}}

InitChange ==
    InitWith(Config(1, 1, 1, 1, 0),
             [scenes |-> ChangeScenes, texts |-> SpecTexts, frames |-> MaxFrames - 1,
              horizon |-> MaxTime, trace |-> TRUE, note |-> TRUE, order |-> FALSE,
              keep |-> 1])

\* get_frames yields without end: when the frames counted so far have all been
\* handled (no analysis and no completion outstanding) the count starts again; the
\* main loop then holds a future that is done, which it treats as it treats none
NextRound ==
    /\ mpc = "loop"
    /\ frame_idx = env.frames
    /\ env.frames % cfg.N = 0
    /\ pending # 0 => Done(pending) /\ fut[pending].seen > 0
    /\ \A w \in Workers : wk[w].pc = "idle"
    /\ frame_idx' = 0
    /\ pending' = 0
    /\ fut' = [i \in DOMAIN fut |-> NoFuture]
    /\ UNCHANGED <<cfg, env, cmp, ds, de, ani, last_detection_key_lock, clock, mpc, wk, procVars, enqVars,
                   tts_queue, stop_event, ttsVars, histVars>>

NextStream == NextProc \/ NextRound

\* the for loop goes on while frames arrive, and the executor's thread runs what
\* it has been given
FairnessProc ==
    /\ WF_vars(MainFrame)
    /\ WF_vars(MainCheck)
    /\ WF_vars(MainAttach)
    /\ WF_vars(NextRound)
    /\ \A w \in Workers :
          /\ WF_vars(WorkerTake(w))
          /\ WF_vars(Detect(w))
          /\ WF_vars(LeaveGate(w))
          /\ WF_vars(Describe(w))
          /\ WF_vars(RecordKey(w))
          /\ WF_vars(CallbackCheck(w))
          /\ WF_vars(CallbackPut(w))

SpecChange == InitChange /\ [][NextStream]_vars /\ FairnessProc

ChangeKeys == {SortedTuple({d.label}) : d \in UNION ChangeScenes}

\* the latest cycle computed the key K, with no urgent hazard
SceneIs(K) ==
    /\ hist # <<>>
    /\ Keyed(hist[Len(hist)])
    /\ hist[Len(hist)].key = K
    /\ ~hist[Len(hist)].urgent

\* the latest cycle did not end with an empty answer of the generator or an error
\* of the detector
GeneratorAnswers ==
    hist # <<>> => hist[Len(hist)].out # "empty" /\ hist[Len(hist)].kind # "error"

\* C32: if from some cycle on every cycle computes the key K without urgent
\* hazard, the generator returns a text on every call and the queue is never
\* full, then a narration of K is eventually put on the queue, also when the first
\* narration of K completed inside the enqueue cooldown
C32_ChangeEventuallyPushed ==
    \A K \in ChangeKeys :
        (<>[]SceneIs(K) /\ []GeneratorAnswers /\ []~QueueFull)
            => <>(last_enqueued_detection_key = K)

\* the speech worker has dropped, by its cooldown, the text that the enqueue gate
\* admitted last
DiscardedAdmitted == trk.handled /\ trk.why = "cooldown"

\* C33 as stated: the speech worker's cooldown never drops a text that the enqueue
\* cooldown admitted
C33_WorkerNeverDiscardsAdmitted == ~DiscardedAdmitted

\* C33: the speech worker's cooldown drops an admitted text only when the call of
\* speak before it began later than the enqueue that the gate measured the
\* cooldown from, that is, when the text spoken before had waited in the queue
C33_DiscardNeedsDelay == DiscardedAdmitted => last_spoken_ts > trk.prev

\* an admitted text has been dropped by the worker's cooldown, the previous text
\* having been spoken a tick after it was enqueued
C33_Witness ==
    /\ DiscardedAdmitted
    /\ cfg.cooldown > 0
    /\ last_enqueue_ts - trk.prev >= cfg.cooldown
    /\ last_spoken_ts > trk.prev

\* the state of the speech worker's own gate
SpeechState == <<last_spoken_text, last_spoken_ts>>

\* C34: last_spoken_text and last_spoken_ts change only when a call of speak ends,
\* and a call of speak that ends either leaves both as they were or sets them to
\* the text spoken and to the time read before the call; a dequeue changes neither
C34_UpdateAfterNormalReturn ==
    [][/\ SpeechState' # SpeechState => tpc = "speaking" /\ tpc' = "loop"
       /\ (tpc = "speaking" /\ tpc' # "speaking") =>
             \/ SpeechState' = <<ttext, spoke_at>> /\ spoke_at = tnow
             \/ SpeechState' = SpeechState
       /\ tts_queue' # tts_queue => SpeechState' = SpeechState]_vars

\* a text has been spoken and recorded with the time of its dequeue, and a later
\* call of speak has raised: the time of that call is not recorded
C34_Witness ==
    /\ tpc = "loop"
    /\ Truthy(last_spoken_text)
    /\ last_spoken_ts >= StartTime
    /\ spoke_at > last_spoken_ts
    /\ clock > spoke_at

\* C35: a completion that has found the queue not full finds room when it calls
\* put_nowait, so that put_nowait never raises queue.Full inside a completion
C35_PutAfterCheckSucceeds ==
    \A w \in Workers : wk[w].pc = "put" => Len(tts_queue) < QueueMaxSize

\* the calls of speak begun since stop_event was set
SpeaksSinceStop == Len(log.spoken) - log.stopped

\* C36: once stop_event is set the speech worker begins at most one more call of
\* speak, and from the loop test it leaves the loop, whatever the queue holds
C36_OneMoreSpeakThenExit ==
    [][/\ stop_event' => SpeaksSinceStop' <= 1
       /\ (stop_event /\ tpc = "loop" /\ tpc' # tpc) =>
             tpc' = "exited" /\ tts_queue' = tts_queue]_vars

\* the worker was waiting in get when stop_event was set, has spoken one more
\* text, and has left the loop with a text still in the queue
C36_Witness ==
    /\ stop_event
    /\ tpc = "exited"
    /\ SpeaksSinceStop = 1
    /\ \E i \in 1..Len(tts_queue) : ~IsSentinel(tts_queue[i])

\* the cycle i found nothing to narrate: no detections, or no stable label
Vacant(i) == hist[i].kind = "nodet" \/ (hist[i].kind # "error" /\ hist[i].key = <<>>)

\* the scene K was narrated at cycle i, every cycle between i and j was vacant, and
\* the cycle j computes K again without an urgent hazard
Reappears(i, j) ==
    /\ i + 1 < j
    /\ Keyed(hist[i])
    /\ hist[i].kind = "dispatch"
    /\ hist[i].out = "text"
    /\ \A k \in (i + 1)..(j - 1) : Vacant(k)
    /\ hist[j].key = hist[i].key
    /\ ~hist[j].urgent

\* C37: last_detection_key and last_ai_ts are assigned only by a cycle that has
\* detections, a stable label and a text from the generator; hence a narrated
\* scene that comes back after vacant cycles is, with no force interval and no
\* urgent hazard, found unchanged and not narrated
C37_VacantCyclesKeepKey ==
    /\ [][<<last_detection_key, last_ai_ts>>' # <<last_detection_key, last_ai_ts>> =>
             \E w \in Workers :
                 /\ wk[w].pc = "record"
                 /\ wk[w].dets # {}
                 /\ wk[w].key # <<>>
                 /\ ~Vacant(Len(hist))]_vars
    /\ [](cfg.force = 0 =>
             \A i, j \in 1..Len(hist) :
                 Reappears(i, j) => hist[j].kind = "skip" /\ hist[j].before = hist[i].key)

\* a car was narrated, a frame without detections followed, and the car of the
\* third frame was skipped as unchanged
C37_Witness ==
    /\ cfg.force = 0
    /\ Len(hist) = 3
    /\ Reappears(1, 3)
    /\ hist[2].kind = "nodet"
    /\ hist[3].kind = "skip"
    /\ fut[3].st = "finished"

(***************************************************************************)
(* Urgent narrations: the whole pipeline with every frame sampled and      *)
(* stable at once, a very close person in every frame, two texts that      *)
(* _is_similar tells apart and a cooldown of 1, cycles and outcomes being  *)
(* recorded.                                                               *)
(***************************************************************************)
InitUrgent ==
    InitWith(Config(1, 1, 1, 1, 0),
             [scenes |-> {{PersonClose}}, texts |-> SpecTexts, frames |-> MaxFrames - 1,
              horizon |-> MaxTime, trace |-> TRUE, note |-> TRUE, order |-> FALSE, keep |-> 0])

SpecUrgent == InitUrgent /\ [][Next]_vars

\* the cycle i called the generator for an unchanged scene because of a very
\* close hazard
Override(i) ==
    /\ i \in 1..Len(hist)
    /\ hist[i].kind = "dispatch"
    /\ hist[i].urgent
    /\ hist[i].before = hist[i].key

\* the step puts t on the queue, or takes the callback to its put_nowait
Admits(t) ==
    \/ tts_queue' = Append(tts_queue, t)
    \/ \E w \in Workers : wk[w].pc = "cb" /\ wk'[w].pc = "put" /\ wk'[w].text = t

\* C38: the text of a cycle that ran under the urgent override is admitted to the
\* queue exactly when the enqueue cooldown is over, it is no near-duplicate for
\* the same key and the queue is not full; and a text taken by the speech worker
\* is spoken exactly when the worker's cooldown is over and it is not similar to
\* the text spoken last
C38_UrgentSameGates ==
    [][/\ \A id \in DOMAIN fut : \A t \in env.texts :
             (Handles(id, t) /\ Override(CycleOf(id))) =>
                (Admits(t) <=>
                    /\ ~CooldownActive(clock)
                    /\ ~NearDuplicate(t)
                    /\ ~QueueFull)
       /\ \A t \in env.texts :
             Dequeues(t) /\ tts_queue' = Tail(tts_queue) =>
                (tpc' = "speaking" <=> ~SpeechCooldown(clock) /\ ~SimilarToSpoken(t))]_vars

\* the narration of the first cycle was spoken; the second cycle ran under the
\* override and its narration was rejected by the enqueue cooldown; the third ran
\* under the override too, its narration was enqueued and the speech worker
\* dropped it: neither urgent narration was spoken
C38_Witness ==
    /\ Len(hist) = 3
    /\ hist[1].out = "text"
    /\ Override(2) /\ hist[2].out = "text"
    /\ Override(3) /\ hist[3].out = "text"
    /\ fut[1].seen = 1 /\ fut[2].seen = 1 /\ fut[3].seen = 1
    /\ compl = "accept"
    /\ last_enqueue_ts > last_spoken_ts
    /\ last_spoken_ts >= StartTime
    /\ trk.handled
    /\ trk.spoken = 0
    /\ tts_queue = <<>>
    /\ tpc = "loop"

(***************************************************************************)
(* decision_engine.should_speak alone: up to MaxCalls calls, each with any *)
(* risk level and any guidance (None included).  The pipeline stands       *)
(* still.                                                                  *)
(***************************************************************************)
MaxCalls == 3

RiskLevels == {"low", "medium", "high"}
Guidances == {NoneText, TextCar, TextPerson}
Results == [risk_level : RiskLevels, spoken_guidance : Guidances]

\* last_message assigned before the two tests: a rejected result is remembered too
should_speak_AssignFirst(result, last_message) ==
    IF result.risk_level = "low"
    THEN [ret |-> FALSE, last_message |-> result.spoken_guidance]
    ELSE IF result.spoken_guidance = last_message
    THEN [ret |-> FALSE, last_message |-> result.spoken_guidance]
    ELSE [ret |-> TRUE, last_message |-> result.spoken_guidance]

\* should_speak(result): the value returned and last_message after the call
should_speak(result, last_message) ==
    IF result.risk_level = "low"
    THEN [ret |-> FALSE, last_message |-> last_message]
    ELSE IF result.spoken_guidance = last_message
    THEN [ret |-> FALSE, last_message |-> last_message]
    ELSE [ret |-> TRUE, last_message |-> result.spoken_guidance]

InitDecide ==
    /\ Standstill
    /\ env = [scenes |-> {}, texts |-> {}, frames |-> 0, horizon |-> 0,
              trace |-> FALSE, note |-> FALSE, order |-> FALSE, keep |-> 0]
    /\ ds = NoCall
    /\ ani = NoEngine

\* one call of should_speak
ShouldSpeak ==
    /\ Len(de.calls) < MaxCalls
    /\ \E result \in Results :
          LET r == should_speak(result, de.last_message)
          IN  de' = [last_message |-> r.last_message,
                     calls |-> Append(de.calls, [result |-> result, ret |-> r.ret])]
    /\ UNCHANGED <<progVars, histVars, cmp, ds, ani>>

NextDecide == ShouldSpeak

SpecDecide == InitDecide /\ [][NextDecide]_vars

\* the guidance of the most recent of the first k calls that returned True
RECURSIVE LastAccepted(_)
LastAccepted(k) ==
    IF k = 0 THEN NoneText
    ELSE IF de.calls[k].ret THEN de.calls[k].result.spoken_guidance
    ELSE LastAccepted(k - 1)

\* C39: a call of should_speak returns True iff the risk level is not "low" and
\* the guidance differs from that of the most recent call that returned True
\* (None before the first); last_message is that guidance after every call, so a
\* call that returns False leaves it as it was
C39_ShouldSpeak ==
    /\ de.last_message = LastAccepted(Len(de.calls))
    /\ \A k \in 1..Len(de.calls) :
          de.calls[k].ret <=>
             /\ de.calls[k].result.risk_level # "low"
             /\ de.calls[k].result.spoken_guidance # LastAccepted(k - 1)

\* a guidance was accepted, another came with low risk and was rejected, and the
\* first guidance, coming again with high risk, is still suppressed
C39_Witness ==
    /\ Len(de.calls) = MaxCalls
    /\ de.calls[1].ret
    /\ de.calls[1].result.spoken_guidance = TextCar
    /\ de.calls[2].result = [risk_level |-> "low", spoken_guidance |-> TextPerson]
    /\ ~de.calls[2].ret
    /\ de.calls[MaxCalls].result = [risk_level |-> "high", spoken_guidance |-> TextCar]
    /\ ~de.calls[MaxCalls].ret
    /\ de.last_message = TextCar

(***************************************************************************)
(* ANIEngine alone: up to MaxAniCalls calls of process_frame on one        *)
(* engine, each with up to MaxDetections detections of two labels at three *)
(* places on a line, two of them nearer to each other than                 *)
(* max_tracking_distance.  A track is its id, label, current_position and  *)
(* missed_frames; tracked_objects is kept in the dict's insertion order.   *)
(* Velocity and the risk assessments, which no later call reads for the    *)
(* matching, are left out.  The pipeline stands still.                     *)
(***************************************************************************)
MaxAniCalls == 3
MaxMissed == 1
MaxDetections == 1
MaxTrackingDistance == 2

Places == {0, 1, 3}
AniDetections == [label : {"person", "car"}, pos : Places]
DetectionLists == UNION {[1..n -> AniDetections] : n \in 0..MaxDetections}

\* np.sqrt((cx - x)**2 + (cy - y)**2), on a line
Distance(a, b) == IF a >= b THEN a - b ELSE b - a

\* the inner loop of _update_tracking: the index of the nearest detection of the
\* track's label not matched yet and nearer than max_tracking_distance, the first
\* of them among equals (0: none)
BestMatch(track, detections, matched_detections) ==
    LET cands == {idx \in DOMAIN detections \ matched_detections :
                     /\ detections[idx].label = track.label
                     /\ Distance(detections[idx].pos, track.pos) < MaxTrackingDistance}
    IN  IF cands = {} THEN 0
        ELSE CHOOSE idx \in cands :
                \A o \in cands :
                    LET d == Distance(detections[idx].pos, track.pos)
                        e == Distance(detections[o].pos, track.pos)
                    IN  d < e \/ (d = e /\ idx <= o)

\* "for track_id, tracked_obj in list(self.tracked_objects.items())", from the
\* k-th track on: a matched track is updated (position taken, missed_frames = 0),
\* an unmatched one has missed_frames incremented
RECURSIVE MatchTracks(_, _, _, _, _)
MatchTracks(k, tracks, detections, matched_detections, matched_tracks) ==
    IF k > Len(tracks)
    THEN [tracks |-> tracks, matched_detections |-> matched_detections,
          matched_tracks |-> matched_tracks]
    ELSE LET best_match_idx == BestMatch(tracks[k], detections, matched_detections)
         IN  IF best_match_idx # 0
             THEN MatchTracks(k + 1,
                              [tracks EXCEPT ![k].pos = detections[best_match_idx].pos,
                                             ![k].missed_frames = 0],
                              detections,
                              matched_detections \cup {best_match_idx},
                              matched_tracks \cup {tracks[k].id})
             ELSE MatchTracks(k + 1,
                              [tracks EXCEPT ![k].missed_frames = @ + 1],
                              detections, matched_detections, matched_tracks)

\* "Create new tracks for unmatched detections", from the idx-th detection on
RECURSIVE NewTracks(_, _, _, _, _)
NewTracks(idx, tracks, next_id, detections, matched_detections) ==
    IF idx > Len(detections) THEN [tracks |-> tracks, next_id |-> next_id]
    ELSE IF idx \in matched_detections
    THEN NewTracks(idx + 1, tracks, next_id, detections, matched_detections)
    ELSE NewTracks(idx + 1,
                   Append(tracks, [id |-> next_id, label |-> detections[idx].label,
                                   pos |-> detections[idx].pos, missed_frames |-> 0]),
                   next_id + 1, detections, matched_detections)

\* _update_tracking: tracked_objects, next_id and matched_tracks after it
UpdateTracking(tracks, next_id, detections) ==
    IF detections = <<>>
    THEN [tracks |-> [k \in DOMAIN tracks |->
                         [tracks[k] EXCEPT !.missed_frames = @ + 1]],
          next_id |-> next_id, matched_tracks |-> {}]
    ELSE LET m == MatchTracks(1, tracks, detections, {}, {})
             n == NewTracks(1, m.tracks, next_id, detections, m.matched_detections)
         IN  [tracks |-> n.tracks, next_id |-> n.next_id,
              matched_tracks |-> m.matched_tracks]

\* a track is removed as soon as missed_frames reaches max_missed_frames
Stale_Inclusive(track, max_missed_frames) == track.missed_frames >= max_missed_frames

\* _cleanup_tracks: "if obj.missed_frames > self.max_missed_frames"
Stale(track, max_missed_frames) == track.missed_frames > max_missed_frames

Ids(tracks) == {tracks[k].id : k \in DOMAIN tracks}

InitAni ==
    /\ Standstill
    /\ env = [scenes |-> {}, texts |-> {}, frames |-> 0, horizon |-> 0,
              trace |-> FALSE, note |-> FALSE, order |-> FALSE, keep |-> 0]
    /\ ds = NoCall
    /\ \E m \in 0..MaxMissed : ani = [NoEngine EXCEPT !.max_missed_frames = m]

\* one call of process_frame: _update_tracking, then _cleanup_tracks
ProcessFrame ==
    /\ ani.calls < MaxAniCalls
    /\ \E detections \in DetectionLists :
          LET u == UpdateTracking(ani.tracked_objects, ani.next_id, detections)
              fresh(t) == ~Stale(t, ani.max_missed_frames)
              kept == SelectSeq(u.tracks, fresh)
          IN  ani' = [ani EXCEPT !.tracked_objects = kept,
                                 !.next_id = u.next_id,
                                 !.calls = @ + 1,
                                 !.detections = detections,
                                 !.matched_tracks = u.matched_tracks,
                                 !.removed = @ \cup (Ids(u.tracks) \ Ids(kept))]
    /\ UNCHANGED <<progVars, histVars, cmp, ds, de>>

NextAni == ProcessFrame

SpecAni == InitAni /\ [][NextAni]_vars

\* missed_frames of the track t after a call in which matched_tracks is M
MissedAfter(t, M) == IF t.id \in M THEN 0 ELSE t.missed_frames + 1

\* C40: in a call of process_frame a matched track gets missed_frames = 0 and an
\* unmatched one missed_frames + 1; the track is deleted in that call exactly when
\* the new value exceeds max_missed_frames; hence no track is ever left with
\* missed_frames > max_missed_frames, and no id is assigned twice: ids are
\* distinct, below next_id, and never those of deleted tracks
C40_MissedFrames ==
    /\ [](LET tracks == ani.tracked_objects
          IN  /\ \A k \in DOMAIN tracks :
                    /\ tracks[k].missed_frames <= ani.max_missed_frames
                    /\ tracks[k].id < ani.next_id
                    /\ tracks[k].id \notin ani.removed
              /\ \A k, l \in DOMAIN tracks : tracks[k].id = tracks[l].id => k = l)
    /\ [][LET old == ani.tracked_objects
              new == ani'.tracked_objects
              M == ani'.matched_tracks
          IN  /\ M \subseteq Ids(old)
              /\ \A k \in DOMAIN old :
                    LET t == old[k]
                    IN  /\ t.id \in M =>
                              \E idx \in DOMAIN ani'.detections :
                                  /\ ani'.detections[idx].label = t.label
                                  /\ Distance(ani'.detections[idx].pos, t.pos)
                                        < MaxTrackingDistance
                        /\ IF MissedAfter(t, M) > ani.max_missed_frames
                           THEN t.id \notin Ids(new) /\ t.id \in ani'.removed
                           ELSE \E j \in DOMAIN new :
                                    /\ new[j].id = t.id
                                    /\ new[j].missed_frames = MissedAfter(t, M)
              /\ \A j \in DOMAIN new :
                    new[j].id \notin Ids(old) =>
                       /\ new[j].id >= ani.next_id
                       /\ new[j].missed_frames = 0
              /\ ani'.next_id >= ani.next_id]_vars

\* with max_missed_frames = 1: the track 0 went unmatched in two calls in a row and
\* was deleted in the second of them; the track 1 is left with one miss
C40_Witness ==
    /\ ani.max_missed_frames = 1
    /\ ani.calls = 3
    /\ ani.removed = {0}
    /\ ani.next_id = 2
    /\ Len(ani.tracked_objects) = 1
    /\ ani.tracked_objects[1].id = 1
    /\ ani.tracked_objects[1].missed_frames = 1

====
